---- MODULE Spec2Model ----
(***************************************************************************)
(* Verification model of the iwi account service core:                    *)
(*   - the message-queue client (src/library/mqer.rs): lease acquisition, *)
(*     publish / subscribe, consumer deliveries and the graceful-shutdown *)
(*     drain, all sharing the atomic `running` flag and `count` counter;  *)
(*   - the token service (src/app/service/jwt_service.rs): issuing and    *)
(*     validating the access / refresh tokens;                            *)
(*   - the verification-code handlers (src/app/api/controller/v1/         *)
(*     account.rs): requesting and verifying the activation and the       *)
(*     password-reset code kept in redis (src/library/redisor.rs).        *)
(* Every atomic access to shared state and every await is one step.       *)
(***************************************************************************)
EXTENDS Integers, FiniteSets, Sequences, TLC

(***************************************************************************)
(* Bounds of the model.                                                    *)
(***************************************************************************)
\* concurrent basic_send calls (HTTP handlers publishing an email job)
NumPublishers == 1
\* messages the broker pushes to the registered consumer
NumDeliveries == 1
\* clock resolution: ticks per second of Instant / Duration
TicksPerSec == 4
\* a sleep or a loop iteration overshoots its duration by 1..MaxJitter ticks
MaxJitter == 2
\* accounts in the store
NumAccounts == 1
\* largest subject id whose key is derived
MaxKeyUid == 12
\* largest configured secret_expiration, seconds
MaxExpiration == 2
\* steps the wall clock takes
MaxTicks == 2
\* request tasks that run a verification-code handler at the same time
NumHandlers == 2
\* handler calls made in all
MaxCalls == 3
\* errors turned into responses in all
MaxResponses == 2

(***************************************************************************)
(* Program constants.                                                      *)
(***************************************************************************)
\* crypto::random_words(6): the length of a verification code
CODE_LEN == 6
\* const TIMEOUT: u64 = 5 (seconds)
TIMEOUT == 5
\* usize::MAX as far as the model's integers reach: what fetch_sub(1) on 0
\* wraps around to
USIZE_MAX == 2147483647
\* Validation::default().leeway of jsonwebtoken, seconds
LEEWAY == 60
\* redis.set_ex(&key, &code, 60 * 5) of send_active_account_email_handler
ACTIVE_TTL == 300
\* redis.set_ex(&key, &code, 60) of send_reset_password_email_handler
RESET_TTL == 60

\* caller 0 is the email consumer's basic_receive (Server::email_sender);
\* callers 1..NumPublishers are basic_send calls
Subscriber == 0
Publishers == 1..NumPublishers
Callers == {Subscriber} \cup Publishers
Deliveries == 1..NumDeliveries

VARIABLES
    \* ---- Mqer (shared, atomic)
    running,    \* Mqer.running : AtomicBool
    count,      \* Mqer.count   : AtomicUsize
    \* ---- one basic_send / basic_receive call per caller
    pc,         \* next statement of the call
    conn,       \* the call holds a pooled connection (deadpool Object)
    ret,        \* value the call returned
    held,       \* history: increments minus decrements the call has made
    passed,     \* history: the call read running = true in get_conn
    leased,     \* history: get_conn returned Some(connection)
    late,       \* history: the call began after running was cleared
    confirmation,   \* history: what the publisher confirm of the call's
                \* basic_publish resolved to ("none" before)
    consumer,   \* the delegate is registered on the broker channel
    \* ---- one on_new_delivery future per delivery
    dpc,        \* next statement of the future
    dsaw,       \* what the future read from the flag: "running" or
                \* "stopped" ("none" before it)
    dcalled,    \* on_message was invoked
    dacked,     \* outcome of delivery.ack: "none", "ok", "err"
    dwork,      \* history: what the callback's work came to: "none" before,
                \* "sent", "parse_error", "send_error"
    dheld,      \* history: increments minus decrements of the future
    dlate,      \* history: the message arrived after running was cleared
    \* ---- graceful_shutdown
    spc,        \* next statement of graceful_shutdown
    elapsed,    \* start.elapsed() in ticks, kept up to the first value
                \* past the time-out (all later ones compare alike)
    busy,       \* what the last count.load of the loop read: "zero" or
                \* "nonzero" ("none" before the first load)
    polls,      \* history: completed sleeps, counted up to TIMEOUT + 1
    warned,     \* history: the time-out warning was logged
    sret,       \* value graceful_shutdown returned
    \* ---- the process (app::serve)
    phase,      \* where app::serve is: "init", "subscribe", "bind",
                \* "serving", "signalled", "stopped", "exit", "panicked"
    shutdowns,  \* history: calls of graceful_shutdown
    \* ---- token service
    config,     \* cfg::config().app: access_token / refresh_token settings
    now,        \* chrono::Utc::now().timestamp(), seconds
    ticks,      \* history: clock steps taken
    store,      \* bw_account rows: status of each account id that has a row
    tok,        \* the token string the client presents
    issuedAs,   \* history: the type tok was issued as ("FORGED": not by
                \* this service)
    issuedFor,  \* history: the UserInfo tok was issued for
    res,        \* result of the call made in the last step ("none" else)
    \* ---- verification codes (controller/v1/account.rs)
    cache,      \* redis: the entry under each key, with its expiry time
    password,   \* bw_account.password of each account id
    mail,       \* the email jobs published to MQ_SEND_EMAIL_QUEUE, in order
    call,       \* the handler call each request task is running
    last,       \* the call that returned in the last step, with its response
    consumed,   \* history: under each key, the code a verify call matched
                \* and deleted, until a new code is stored
    tries,      \* history: under each key, the verify calls answered since
                \* the code was stored
    calls,      \* history: handler calls begun
    overlap,    \* history: for each key, a request_code call for it began
                \* while another one for it was running
    \* ---- error responses (library/error.rs)
    responses,  \* the responses made from errors so far, in order
    raised      \* history: the error each of them was made from

callVars == <<pc, conn, ret, held, passed, leased, late, confirmation,
              consumer>>
delivVars == <<dpc, dsaw, dcalled, dacked, dwork, dheld, dlate>>
procVars == <<phase, shutdowns>>
shutVars == <<spc, elapsed, busy, polls, warned, sret, procVars>>
mqVars == <<running, count, callVars, delivVars, shutVars>>
jwtVars == <<config, now, ticks, store, tok, issuedAs, issuedFor, res>>
\* everything the queue client leaves alone
codeVars == <<cache, password, mail, call, last, consumed, tries, calls,
              overlap>>
errVars == <<responses, raised>>
appVars == <<jwtVars, codeVars, errVars>>
vars == <<mqVars, appVars>>

(***************************************************************************)
(* Mqer::increase_count / decrease_count: fetch_add / fetch_sub on the     *)
(* AtomicUsize, wrapping.                                                  *)
(***************************************************************************)
increase_count(n) == IF n = USIZE_MAX THEN 0 ELSE n + 1

\* a decrement that takes two (fetch_sub(2))
decrease_count_by_two(n) ==
    IF n = 0 THEN USIZE_MAX - 1 ELSE IF n = 1 THEN USIZE_MAX ELSE n - 2

decrease_count(n) == IF n = 0 THEN USIZE_MAX ELSE n - 1

\* Mqer::init
MqInit ==
    /\ running = TRUE
    /\ count = 0
    /\ pc = [c \in Callers |-> "idle"]
    /\ conn = [c \in Callers |-> FALSE]
    /\ ret = [c \in Callers |-> "none"]
    /\ held = [c \in Callers |-> 0]
    /\ passed = [c \in Callers |-> FALSE]
    /\ leased = [c \in Callers |-> FALSE]
    /\ late = [c \in Callers |-> FALSE]
    /\ confirmation = [c \in Callers |-> "none"]
    /\ consumer = FALSE
    /\ dpc = [d \in Deliveries |-> "idle"]
    /\ dsaw = [d \in Deliveries |-> "none"]
    /\ dcalled = [d \in Deliveries |-> FALSE]
    /\ dacked = [d \in Deliveries |-> "none"]
    /\ dwork = [d \in Deliveries |-> "none"]
    /\ dheld = [d \in Deliveries |-> 0]
    /\ dlate = [d \in Deliveries |-> FALSE]
    /\ spc = "idle"
    /\ elapsed = 0
    /\ busy = "none"
    /\ polls = 0
    /\ warned = FALSE
    /\ sret = "none"
    /\ phase = "init"
    /\ shutdowns = 0

\* the call of caller c returns r (an early return through `?` included)
Return(c, r) ==
    /\ pc' = [pc EXCEPT ![c] = "ret"]
    /\ ret' = [ret EXCEPT ![c] = r]

\* caller c starts its call: basic_receive for the subscriber, basic_send
\* for a publisher; both begin with get_conn
Call(c) ==
    /\ pc[c] = "idle"
    /\ pc' = [pc EXCEPT ![c] = "get_conn"]
    /\ late' = [late EXCEPT ![c] = ~running]
    /\ UNCHANGED <<running, count, conn, ret, held, passed, leased, consumer,
                   confirmation,
                   delivVars, shutVars, appVars>>

(***************************************************************************)
(* Mqer::get_conn: increase_count, then running.load, then pool.get.       *)
(* A None makes basic_send / basic_receive return the "Channel is going to *)
(* be closed" error through ok_or(..)?, a pool error returns through `?`.  *)
(***************************************************************************)
get_conn_check_first(c) ==
    \/ /\ pc[c] = "get_conn"
       /\ IF ~running
          THEN /\ Return(c, "Closed")
               /\ UNCHANGED passed
          ELSE /\ pc' = [pc EXCEPT ![c] = "increase_count"]
               /\ passed' = [passed EXCEPT ![c] = TRUE]
               /\ UNCHANGED ret
       /\ UNCHANGED <<running, count, conn, held, leased, late, confirmation,
                      consumer,
                      delivVars, shutVars, appVars>>
    \/ /\ pc[c] = "increase_count"
       /\ count' = increase_count(count)
       /\ held' = [held EXCEPT ![c] = @ + 1]
       /\ pc' = [pc EXCEPT ![c] = "pool_get"]
       /\ UNCHANGED <<running, conn, ret, passed, leased, late, confirmation,
                      consumer,
                      delivVars, shutVars, appVars>>
    \/ /\ pc[c] = "pool_get"
       /\ \E ok \in BOOLEAN :
            IF ok
            THEN /\ pc' = [pc EXCEPT ![c] = "create_channel"]
                 /\ conn' = [conn EXCEPT ![c] = TRUE]
                 /\ leased' = [leased EXCEPT ![c] = TRUE]
                 /\ UNCHANGED ret
            ELSE /\ Return(c, "PoolError")
                 /\ UNCHANGED <<conn, leased>>
       /\ UNCHANGED <<running, count, held, passed, late, confirmation,
                      consumer,
                      delivVars, shutVars, appVars>>

\* a get_conn that reads the flag and goes on to the pool whatever it read
get_conn_ignores_flag(c) ==
    \/ /\ pc[c] = "get_conn"
       /\ count' = increase_count(count)
       /\ held' = [held EXCEPT ![c] = @ + 1]
       /\ pc' = [pc EXCEPT ![c] = "running_load"]
       /\ UNCHANGED <<running, conn, ret, passed, leased, late, confirmation,
                      consumer,
                      delivVars, shutVars, appVars>>
    \/ /\ pc[c] = "running_load"
       /\ pc' = [pc EXCEPT ![c] = "pool_get"]
       /\ passed' = [passed EXCEPT ![c] = running]
       /\ UNCHANGED <<running, count, conn, ret, held, leased, late, confirmation,
                      consumer,
                      delivVars, shutVars, appVars>>
    \/ /\ pc[c] = "pool_get"
       /\ \E ok \in BOOLEAN :
            IF ok
            THEN /\ pc' = [pc EXCEPT ![c] = "create_channel"]
                 /\ conn' = [conn EXCEPT ![c] = TRUE]
                 /\ leased' = [leased EXCEPT ![c] = TRUE]
                 /\ UNCHANGED ret
            ELSE /\ Return(c, "PoolError")
                 /\ UNCHANGED <<conn, leased>>
       /\ UNCHANGED <<running, count, held, passed, late, confirmation,
                      consumer,
                      delivVars, shutVars, appVars>>

get_conn(c) ==
    \/ /\ pc[c] = "get_conn"
       /\ count' = increase_count(count)
       /\ held' = [held EXCEPT ![c] = @ + 1]
       /\ pc' = [pc EXCEPT ![c] = "running_load"]
       /\ UNCHANGED <<running, conn, ret, passed, leased, late, confirmation,
                      consumer,
                      delivVars, shutVars, appVars>>
    \/ /\ pc[c] = "running_load"
       /\ IF ~running
          THEN /\ Return(c, "Closed")
               /\ UNCHANGED passed
          ELSE /\ pc' = [pc EXCEPT ![c] = "pool_get"]
               /\ passed' = [passed EXCEPT ![c] = TRUE]
               /\ UNCHANGED ret
       /\ UNCHANGED <<running, count, conn, held, leased, late, confirmation,
                      consumer,
                      delivVars, shutVars, appVars>>
    \/ /\ pc[c] = "pool_get"
       /\ \E ok \in BOOLEAN :
            IF ok
            THEN /\ pc' = [pc EXCEPT ![c] = "create_channel"]
                 /\ conn' = [conn EXCEPT ![c] = TRUE]
                 /\ leased' = [leased EXCEPT ![c] = TRUE]
                 /\ UNCHANGED ret
            ELSE /\ Return(c, "PoolError")
                 /\ UNCHANGED <<conn, leased>>
       /\ UNCHANGED <<running, count, held, passed, late, confirmation,
                      consumer,
                      delivVars, shutVars, appVars>>

(***************************************************************************)
(* One awaited broker call of basic_send / basic_receive at statement      *)
(* `at`: on success the call goes on to `next`, on error it returns        *)
(* MqerError::ExeError through `?` (nothing else runs, no decrement).      *)
(* The pooled connection is a temporary of the create_channel statement:   *)
(* it goes back to the pool when that statement ends, either way.          *)
(***************************************************************************)
BrokerCall(c, at, next) ==
    /\ pc[c] = at
    /\ \E ok \in BOOLEAN :
         IF ok
         THEN /\ pc' = [pc EXCEPT ![c] = next]
              /\ UNCHANGED ret
         ELSE Return(c, "ExeError")
    /\ conn' = IF at = "create_channel" THEN [conn EXCEPT ![c] = FALSE] ELSE conn

\* the closing self.decrease_count(); Ok(()) of basic_send / basic_receive
DecreaseAndReturn(c) ==
    /\ pc[c] = "decrease_count"
    /\ count' = decrease_count(count)
    /\ held' = [held EXCEPT ![c] = @ - 1]
    /\ Return(c, "Ok")
    /\ UNCHANGED <<running, conn, passed, leased, late, confirmation,
                      consumer,
                   delivVars, shutVars, appVars>>

\* the channel basic_send publishes on is the one create_channel made; no
\* code of the service puts a channel in confirm mode (confirm_select)
confirm_select == FALSE

\* what awaiting the PublisherConfirm of basic_publish yields when it does
\* not fail: the broker's Ack or Nack on a channel in confirm mode,
\* NotRequested at once on any other
publisher_confirm(confirm_mode) ==
    IF confirm_mode THEN {"Ack", "Nack"} ELSE {"NotRequested"}

(***************************************************************************)
(* Mqer::basic_send: get_conn, create_channel, queue_declare,              *)
(* basic_publish, the publisher confirm, decrease_count.                   *)
(***************************************************************************)
basic_send(c) ==
    \/ Call(c)
    \/ get_conn(c)
    \/ /\ \/ BrokerCall(c, "create_channel", "queue_declare")
          \/ BrokerCall(c, "queue_declare", "basic_publish")
          \/ BrokerCall(c, "basic_publish", "confirm")
       /\ UNCHANGED <<running, count, held, passed, leased, late, confirmation,
                      consumer, delivVars, shutVars, appVars>>
    \/ /\ BrokerCall(c, "confirm", "decrease_count")
       /\ \E v \in publisher_confirm(confirm_select) :
            confirmation' =
                IF pc'[c] = "decrease_count"
                THEN [confirmation EXCEPT ![c] = v]
                ELSE confirmation
       /\ UNCHANGED <<running, count, held, passed, leased, late, consumer,
                      delivVars, shutVars, appVars>>
    \/ DecreaseAndReturn(c)

(***************************************************************************)
(* Mqer::basic_receive: get_conn, create_channel, queue_declare,           *)
(* basic_consume + set_delegate, decrease_count.                           *)
(***************************************************************************)
basic_receive(c) ==
    \/ Call(c)
    \/ get_conn(c)
    \/ /\ \/ BrokerCall(c, "create_channel", "queue_declare")
          \/ BrokerCall(c, "queue_declare", "basic_consume")
       /\ UNCHANGED <<running, count, held, passed, leased, late, confirmation,
                      consumer,
                      delivVars, shutVars, appVars>>
    \/ /\ BrokerCall(c, "basic_consume", "decrease_count")
       /\ consumer' = (pc'[c] = "decrease_count")
       /\ UNCHANGED <<running, count, held, passed, leased, late, confirmation,
                      delivVars, shutVars, appVars>>
    \/ DecreaseAndReturn(c)

(***************************************************************************)
(* Subscriber::on_new_delivery, the future run for one pushed message.     *)
(***************************************************************************)
\* payloads a message on MQ_SEND_EMAIL_QUEUE may carry: an email job, bytes
\* that are no Email JSON, an email job the mail transport refuses
Payloads == {"job", "unparsable", "undeliverable"}

\* the closure of Server::email_sender: parse the Email, send it; what the
\* `result` it logs comes to (the closure itself returns nothing)
func(message) ==
    CASE message = "unparsable" -> "parse_error"
      [] message = "undeliverable" -> "send_error"
      [] OTHER -> "sent"

\* a delegate that acks only the jobs whose work succeeded
after_func_ack_on_success(result) ==
    IF result = "sent" THEN "ack" ELSE "decrease_count"

\* the statement after (func_cloned)(message): delivery.ack(..), whatever
\* the closure's work came to
after_func(result) == "ack"

\* the broker pushes message d to the registered delegate; a DeliveryResult
\* other than Ok(Some(_)) is only logged
Deliver(d) ==
    /\ dpc[d] = "idle"
    /\ consumer
    /\ \E some \in BOOLEAN :
         dpc' = [dpc EXCEPT ![d] = IF some THEN "increase_count" ELSE "ret"]
    /\ dlate' = [dlate EXCEPT ![d] = ~running]
    /\ UNCHANGED <<running, count, callVars, dsaw, dcalled, dacked, dwork,
                   dheld, shutVars, appVars>>

on_new_delivery_unchecked(d) ==
    \/ /\ dpc[d] = "increase_count"
       /\ count' = increase_count(count)
       /\ dheld' = [dheld EXCEPT ![d] = @ + 1]
       /\ dpc' = [dpc EXCEPT ![d] = "running_load"]
       /\ UNCHANGED <<running, callVars, dsaw, dcalled, dacked, dwork, dlate,
                      shutVars, appVars>>
    \/ /\ dpc[d] = "running_load"
       /\ dsaw' = [dsaw EXCEPT ![d] = IF running THEN "running" ELSE "stopped"]
       /\ dpc' = [dpc EXCEPT ![d] = "func"]
       /\ UNCHANGED <<running, count, callVars, dcalled, dacked, dwork, dheld,
                      dlate, shutVars, appVars>>
    \/ /\ dpc[d] = "func"
       /\ dcalled' = [dcalled EXCEPT ![d] = TRUE]
       /\ \E message \in Payloads :
            /\ dwork' = [dwork EXCEPT ![d] = func(message)]
            /\ dpc' = [dpc EXCEPT ![d] = after_func(func(message))]
       /\ UNCHANGED <<running, count, callVars, dsaw, dacked, dheld, dlate,
                      shutVars, appVars>>
    \/ /\ dpc[d] = "ack"
       /\ \E ok \in BOOLEAN :
            dacked' = [dacked EXCEPT ![d] = IF ok THEN "ok" ELSE "err"]
       /\ dpc' = [dpc EXCEPT ![d] = "decrease_count"]
       /\ UNCHANGED <<running, count, callVars, dsaw, dcalled, dwork, dheld,
                      dlate, shutVars, appVars>>
    \/ /\ dpc[d] = "decrease_count"
       /\ count' = decrease_count(count)
       /\ dheld' = [dheld EXCEPT ![d] = @ - 1]
       /\ dpc' = [dpc EXCEPT ![d] = "ret"]
       /\ UNCHANGED <<running, callVars, dsaw, dcalled, dacked, dwork, dlate,
                      shutVars, appVars>>

on_new_delivery(d) ==
    \* mqer_cloned.increase_count()
    \/ /\ dpc[d] = "increase_count"
       /\ count' = increase_count(count)
       /\ dheld' = [dheld EXCEPT ![d] = @ + 1]
       /\ dpc' = [dpc EXCEPT ![d] = "running_load"]
       /\ UNCHANGED <<running, callVars, dsaw, dcalled, dacked, dwork, dlate,
                      shutVars, appVars>>
    \* if !running.load() { return; }
    \/ /\ dpc[d] = "running_load"
       /\ dsaw' = [dsaw EXCEPT ![d] = IF running THEN "running" ELSE "stopped"]
       /\ dpc' = [dpc EXCEPT ![d] = IF running THEN "func" ELSE "ret"]
       /\ UNCHANGED <<running, count, callVars, dcalled, dacked, dwork, dheld,
                      dlate, shutVars, appVars>>
    \* (func_cloned)(message): the step is the callback running to its end
    \/ /\ dpc[d] = "func"
       /\ dcalled' = [dcalled EXCEPT ![d] = TRUE]
       /\ \E message \in Payloads :
            /\ dwork' = [dwork EXCEPT ![d] = func(message)]
            /\ dpc' = [dpc EXCEPT ![d] = after_func(func(message))]
       /\ UNCHANGED <<running, count, callVars, dsaw, dacked, dheld, dlate,
                      shutVars, appVars>>
    \* delivery.ack(..).await; a failure is only logged
    \/ /\ dpc[d] = "ack"
       /\ \E ok \in BOOLEAN :
            dacked' = [dacked EXCEPT ![d] = IF ok THEN "ok" ELSE "err"]
       /\ dpc' = [dpc EXCEPT ![d] = "decrease_count"]
       /\ UNCHANGED <<running, count, callVars, dsaw, dcalled, dwork, dheld,
                      dlate, shutVars, appVars>>
    \* mqer_cloned.decrease_count()
    \/ /\ dpc[d] = "decrease_count"
       /\ count' = decrease_count(count)
       /\ dheld' = [dheld EXCEPT ![d] = @ - 1]
       /\ dpc' = [dpc EXCEPT ![d] = "ret"]
       /\ UNCHANGED <<running, callVars, dsaw, dcalled, dacked, dwork, dlate,
                      shutVars, appVars>>

(***************************************************************************)
(* Mqer::graceful_shutdown.                                                *)
(***************************************************************************)
Min(a, b) == IF a < b THEN a ELSE b

\* start.elapsed() > Duration::from_secs(TIMEOUT)
timed_out_at_once(e) == e >= 0

timed_out_late(e) == e > (TIMEOUT + 1) * TicksPerSec

timed_out_never(e) == FALSE

timed_out(e) == e > TIMEOUT * TicksPerSec

\* running.store(false); let start = Instant::now()
ShutdownCall ==
    /\ spc = "idle"
    /\ running' = FALSE
    /\ elapsed' = 0
    /\ spc' = "count_load"
    /\ shutdowns' = shutdowns + 1
    /\ UNCHANGED <<count, callVars, delivVars, busy, polls, warned, sret,
                   phase, appVars>>

\* the while loop, then Ok(()). One round is the atomic count.load with the
\* elapsed check that follows it on the same thread, the other the
\* sleep(1 s). thread::sleep lasts at least its duration and the round's own
\* work takes time, so a round moves start.elapsed() by more than a second.
ShutdownStep ==
    \/ /\ spc = "count_load"
       /\ busy' = IF count > 0 THEN "nonzero" ELSE "zero"
       /\ IF count > 0
          THEN IF timed_out(elapsed)
               THEN /\ warned' = TRUE
                    /\ spc' = "ret"
                    /\ sret' = "Ok"
               ELSE /\ spc' = "sleep"
                    /\ UNCHANGED <<warned, sret>>
          ELSE /\ spc' = "ret"
               /\ sret' = "Ok"
               /\ UNCHANGED warned
       /\ UNCHANGED <<running, count, callVars, delivVars, elapsed, polls,
                      procVars, appVars>>
    \/ /\ spc = "sleep"
       /\ \E j \in 1..MaxJitter :
            elapsed' = Min(elapsed + TicksPerSec + j, TIMEOUT * TicksPerSec + 1)
       /\ polls' = Min(polls + 1, TIMEOUT + 1)
       /\ spc' = "count_load"
       /\ UNCHANGED <<running, count, callVars, delivVars, busy, warned,
                      sret, procVars, appVars>>

graceful_shutdown == ShutdownCall \/ ShutdownStep

(***************************************************************************)
(* Token service, src/app/service/jwt_service.rs.                          *)
(*                                                                         *)
(* A token string is the triple header.claims.signature. The model keeps   *)
(* the claims and the key the HMAC was computed with: decode recomputes    *)
(* the HMAC with its own key and compares, so it accepts the signature     *)
(* exactly when the two keys agree. A string that is no such triple is     *)
(* [form |-> "garbage"].                                                   *)
(***************************************************************************)
Uids == 1..NumAccounts
AccountStatus == {"Active", "Inactive", "Suspend"}
TokenType == {"ACCESS", "REFRESH"}
\* secrets an operator may configure
Secrets == {"s1", "s2"}
Expirations == 1..MaxExpiration
JWTConfig == [secret : Secrets, secret_expiration : Expirations]
\* the configurations up to the names of the secrets: the access secret is
\* called "s1", the refresh secret is the same one or another
AppConfig ==
    {c \in [access_token : JWTConfig, refresh_token : JWTConfig] :
        c.access_token.secret = "s1"}

\* the email column of account uid (never updated by the service)
EmailOf(uid) == <<"mail", uid>>

\* UserInfo built from an account row (generate_tokens_for_user)
UserInfo(uid) == [uid |-> uid, email |-> EmailOf(uid), status |-> store[uid]]

\* no account at all
NoSubject == [uid |-> 0, email |-> EmailOf(0), status |-> "none"]

Garbage == [form |-> "garbage"]

\* TokenSecretInfo::get_secret
get_secret_shared(token_type) == config.access_token.secret

get_secret(token_type) ==
    IF token_type = "ACCESS"
    THEN config.access_token.secret
    ELSE config.refresh_token.secret

\* TokenSecretInfo::get_secret_expiration
get_secret_expiration(token_type) ==
    IF token_type = "ACCESS"
    THEN config.access_token.secret_expiration
    ELSE config.refresh_token.secret_expiration

\* jsonwebtoken::encode(&Header::default(), &claims, &EncodingKey)
encode(claims, key) == [form |-> "jwt", key |-> key, claims |-> claims]

\* TokenAuth::generate_token at time t
generate_token_default_status(token_type, credential, t) ==
    encode([uid |-> credential.uid,
            email |-> credential.email,
            status |-> "Inactive",
            exp |-> t + get_secret_expiration(token_type),
            iat |-> t],
           get_secret(token_type))

generate_token(token_type, credential, t) ==
    encode([uid |-> credential.uid,
            email |-> credential.email,
            status |-> credential.status,
            exp |-> t + get_secret_expiration(token_type),
            iat |-> t],
           get_secret(token_type))

\* jsonwebtoken::decode with Validation::default(): the signature, then exp
\* with the default leeway
decode_no_exp(token, key, t) ==
    IF token.form # "jwt" THEN [ok |-> FALSE, err |-> "InvalidToken_format"]
    ELSE IF token.key # key THEN [ok |-> FALSE, err |-> "InvalidSignature"]
    ELSE [ok |-> TRUE, claims |-> token.claims]

decode(token, key, t) ==
    IF token.form # "jwt" THEN [ok |-> FALSE, err |-> "InvalidToken_format"]
    ELSE IF token.key # key THEN [ok |-> FALSE, err |-> "InvalidSignature"]
    ELSE IF token.claims.exp < t - LEEWAY
         THEN [ok |-> FALSE, err |-> "ExpiredSignature"]
    ELSE [ok |-> TRUE, claims |-> token.claims]

InvalidToken == [ok |-> FALSE, err |-> "InvalidToken"]
WrongCredentials == [ok |-> FALSE, err |-> "WrongCredentials"]

\* TokenAuth::parse_token of the TokenSecretInfo of token_type
TokenAuth_parse_token_raw(token_type, token, t) ==
    decode(token, get_secret(token_type), t)

TokenAuth_parse_token(token_type, token, t) ==
    LET d == decode(token, get_secret(token_type), t)
    IN  IF d.ok THEN d ELSE InvalidToken

\* Claims::parse_token(token, token_type, flag) at time t
parse_token_lax_gate(token, token_type, flag, t) ==
    LET r == TokenAuth_parse_token(token_type, token, t)
    IN  IF ~r.ok THEN r
        ELSE IF (flag /\ r.claims.status = "Active")
                \/ (~flag /\ r.claims.status # "Active")
             THEN r
             ELSE InvalidToken

parse_token(token, token_type, flag, t) ==
    LET r == TokenAuth_parse_token(token_type, token, t)
    IN  IF ~r.ok THEN r
        ELSE IF (flag /\ r.claims.status = "Active")
                \/ (~flag /\ r.claims.status # "Suspend")
             THEN r
             ELSE InvalidToken

\* Claims::generate_tokens at time t
generate_tokens(credential, t) ==
    [ok |-> TRUE,
     access_token |-> generate_token("ACCESS", credential, t),
     refresh_token |-> generate_token("REFRESH", credential, t)]

\* a lookup that never finds a row
fetch_user_by_uid_none(uid) == [some |-> FALSE]

\* Account::fetch_user_by_uid: the row with id = uid, if there is one
fetch_user_by_uid(uid) ==
    IF uid \in DOMAIN store
    THEN [some |-> TRUE,
          row |-> [id |-> uid, email |-> EmailOf(uid), status |-> store[uid]]]
    ELSE [some |-> FALSE]

\* tokens issued as for an activated account, whatever the row says
generate_tokens_for_user_active(user, t) ==
    generate_tokens([uid |-> user.id, email |-> user.email,
                     status |-> "Active"], t)

\* Claims::generate_tokens_for_user(&user) at time t
generate_tokens_for_user(user, t) ==
    generate_tokens([uid |-> user.id, email |-> user.email,
                     status |-> user.status], t)

\* Claims::refresh_token(token, state) at time t
refresh_token_missing_invalid(token, t) ==
    LET claims == parse_token(token, "REFRESH", FALSE, t)
    IN  IF ~claims.ok THEN claims
        ELSE LET user == fetch_user_by_uid(claims.claims.uid)
             IN  IF ~user.some THEN InvalidToken
                 ELSE generate_tokens_for_user(user.row, t)

refresh_token_from_claims(token, t) ==
    LET claims == parse_token(token, "REFRESH", FALSE, t)
    IN  IF ~claims.ok THEN claims
        ELSE LET user == fetch_user_by_uid(claims.claims.uid)
             IN  IF ~user.some THEN WrongCredentials
                 ELSE generate_tokens([uid |-> claims.claims.uid,
                                       email |-> claims.claims.email,
                                       status |-> claims.claims.status], t)

refresh_token(token, t) ==
    LET claims == parse_token(token, "REFRESH", FALSE, t)
    IN  IF ~claims.ok THEN claims
        ELSE LET user == fetch_user_by_uid(claims.claims.uid)
             IN  IF ~user.some THEN WrongCredentials
                 ELSE generate_tokens_for_user(user.row, t)

NoResult == [op |-> "none"]

\* the configuration is loaded once (cfg::init) and never changes; no
\* token has been issued; the clock starts at 0
JwtInit ==
    /\ config \in AppConfig
    /\ now = 0
    /\ ticks = 0
    /\ store \in [Uids -> AccountStatus]
    /\ tok = Garbage
    /\ issuedAs = "FORGED"
    /\ issuedFor = NoSubject
    /\ res = NoResult

\* the token service at rest, for the specification of the queue client
JwtIdle ==
    /\ config = [access_token |-> [secret |-> "s1", secret_expiration |-> 1],
                 refresh_token |-> [secret |-> "s2", secret_expiration |-> 1]]
    /\ now = 0
    /\ ticks = 0
    /\ store = [u \in Uids |-> "Inactive"]
    /\ tok = Garbage
    /\ issuedAs = "FORGED"
    /\ issuedFor = NoSubject
    /\ res = NoResult

\* time passes: a second, or the length of the leeway
Tick ==
    /\ ticks < MaxTicks
    /\ \E d \in {1, LEEWAY} : now' = now + d
    /\ ticks' = ticks + 1
    /\ res' = NoResult
    /\ UNCHANGED <<config, store, tok, issuedAs, issuedFor, mqVars, codeVars, errVars>>

\* the status column of an account changes in the store (the service
\* itself never writes it)
StoreStatusChange ==
    /\ \E u \in DOMAIN store, st \in AccountStatus :
         /\ store[u] # st
         /\ store' = [store EXCEPT ![u] = st]
    /\ res' = NoResult
    /\ UNCHANGED <<config, now, ticks, tok, issuedAs, issuedFor, mqVars, codeVars, errVars>>

\* the row of an account is removed from the store (the service itself
\* never deletes one)
StoreDelete ==
    /\ \E u \in DOMAIN store :
         store' = [v \in DOMAIN store \ {u} |-> store[v]]
    /\ res' = NoResult
    /\ UNCHANGED <<config, now, ticks, tok, issuedAs, issuedFor, mqVars, codeVars, errVars>>

\* Claims::generate_tokens_for_user(&user) for the row of account u (login,
\* activation); the client goes on with one of the two tokens
GenerateTokensForUser ==
    /\ \E u \in DOMAIN store, kind \in TokenType :
         LET pair == generate_tokens(UserInfo(u), now)
         IN  /\ res' = [op |-> "generate_tokens", uid |-> u, out |-> pair]
             /\ tok' = IF kind = "ACCESS" THEN pair.access_token
                       ELSE pair.refresh_token
             /\ issuedAs' = kind
             /\ issuedFor' = UserInfo(u)
    /\ UNCHANGED <<config, now, ticks, store, mqVars, codeVars, errVars>>

\* the client presents a string this service did not issue: no token at
\* all, or claims of its choice signed with a key of its own
PresentForged ==
    /\ \E t \in {Garbage} \cup
                {encode([uid |-> u, email |-> EmailOf(u), status |-> st,
                         exp |-> now + MaxExpiration, iat |-> now], "k0")
                   : u \in Uids, st \in AccountStatus} :
         /\ t # tok
         /\ tok' = t
    /\ issuedAs' = "FORGED"
    /\ issuedFor' = NoSubject
    /\ res' = NoResult
    /\ UNCHANGED <<config, now, ticks, store, mqVars, codeVars, errVars>>

\* The calls below are pure: they read the state and leave a result. A
\* call made right after another call is a call made in the state before
\* it, and is made there (res = NoResult).

\* a direct call Claims::parse_token(tok, token_type, flag)
ParseToken ==
    /\ res = NoResult
    /\ \E token_type \in TokenType, flag \in BOOLEAN :
         res' = [op |-> "parse_token", token_type |-> token_type,
                 flag |-> flag, header |-> TRUE,
                 out |-> parse_token(tok, token_type, flag, now)]
    /\ UNCHANGED <<config, now, ticks, store, tok, issuedAs, issuedFor, mqVars, codeVars, errVars>>

\* impl FromRequestParts for Claims: the Authorization: Bearer header, then
\* parse_token(.., ACCESS, false)
FromRequestParts ==
    /\ res = NoResult
    /\ \E header \in BOOLEAN :
         res' = [op |-> "from_request_parts", token_type |-> "ACCESS",
                 flag |-> FALSE, header |-> header,
                 out |-> IF header
                         THEN parse_token(tok, "ACCESS", FALSE, now)
                         ELSE InvalidToken]
    /\ UNCHANGED <<config, now, ticks, store, tok, issuedAs, issuedFor, mqVars, codeVars, errVars>>

\* middleware::auth::handle(request, next, verified)
Handle ==
    /\ res = NoResult
    /\ \E header \in BOOLEAN, verified \in BOOLEAN :
         res' = [op |-> "handle", token_type |-> "ACCESS",
                 flag |-> verified, header |-> header,
                 out |-> IF header
                         THEN parse_token(tok, "ACCESS", verified, now)
                         ELSE InvalidToken]
    /\ UNCHANGED <<config, now, ticks, store, tok, issuedAs, issuedFor, mqVars, codeVars, errVars>>

\* refresh_token_handler: Claims::refresh_token(tok, state)
RefreshToken ==
    /\ res = NoResult
    /\ res' = [op |-> "refresh_token", token_type |-> "REFRESH",
               flag |-> FALSE, header |-> TRUE,
               out |-> refresh_token(tok, now)]
    /\ UNCHANGED <<config, now, ticks, store, tok, issuedAs, issuedFor, mqVars, codeVars, errVars>>


(***************************************************************************)
(* Verification codes, src/app/api/controller/v1/account.rs, over the      *)
(* redis wrapper src/library/redisor.rs.                                   *)
(*                                                                         *)
(* A handler call is a task; each command it awaits from redis, the store  *)
(* or the queue client is one step, and each may fail, which ends the call *)
(* with the collaborator's error. A call that returns leaves its record,   *)
(* with the response, in `last` for the one state that follows.            *)
(***************************************************************************)
Handlers == 1..NumHandlers
\* no code
NoCode == <<>>

\* the characters codes are made of (two of Alphanumeric)
Alphabet == {"a", "b"}

\* crypto::random_words(length): the strings it may return, `length`
\* characters each; here those of one repeated character
random_words_short(length) ==
    IF length = 0 THEN {NoCode}
    ELSE {[i \in 1..(length - 1) |-> ch] : ch \in Alphabet}

random_words(length) ==
    {[i \in 1..length |-> ch] : ch \in Alphabet}

\* values crypto::random_words(CODE_LEN) may return, and a client may submit
Codes == random_words(CODE_LEN)

\* the code a request_code call holds before it has generated one
SomeCode == CHOOSE code \in Codes : TRUE
Ops == {"send_active", "send_reset", "verify_active", "change_password"}
SendOps == {"send_active", "send_reset"}

\* bootstrap::constants::REDIS_ACTIVE_ACCOUNT_KEY, REDIS_RESET_PASSWORD_KEY
REDIS_ACTIVE_ACCOUNT_KEY == "active_account"
REDIS_RESET_PASSWORD_KEY == "reset_password"

\* A key is the sequence of the pieces of its string: the configured prefix
\* and a key constant are one piece each, a decimal digit and the separator
\* ":" are one piece each.

\* the decimal digit d
Digit(d) == <<"0", "1", "2", "3", "4", "5", "6", "7", "8", "9">>[d + 1]

\* Display of a uid that is not negative: its decimal digits
RECURSIVE to_string(_)
to_string(n) ==
    IF n < 10 THEN <<Digit(n)>>
    ELSE to_string(n \div 10) \o <<Digit(n % 10)>>

\* Redis::key: "{prefix}:{key}"
redis_key(key) == <<"prefix", ":">> \o key

\* the key a handler computes: redis.key(&format!("{}:{}", uid, CONST))
handler_key(uid, const) == redis_key(to_string(uid) \o <<":", const>>)

\* every handler builds its key from the activation constant
KeyConst_one_constant(op) == REDIS_ACTIVE_ACCOUNT_KEY

KeyConst(op) ==
    IF op \in {"send_active", "verify_active"}
    THEN REDIS_ACTIVE_ACCOUNT_KEY
    ELSE REDIS_RESET_PASSWORD_KEY

\* the redis keys the service touches; get, set_ex and del prefix the key
\* they are given once more
CacheKeys ==
    {redis_key(handler_key(u, k)) :
        u \in Uids, k \in {REDIS_ACTIVE_ACCOUNT_KEY, REDIS_RESET_PASSWORD_KEY}}

NoEntry == [code |-> NoCode, until |-> 0]

\* a lookup that never finds a value
redis_get_miss(key, t) == [some |-> FALSE]

\* Redis::get at time t: the value, unless the key is absent or its TTL ran
\* out
redis_get(key, t) ==
    LET e == cache[redis_key(key)]
    IN  IF e.code # NoCode /\ t < e.until
        THEN [some |-> TRUE, value |-> e.code]
        ELSE [some |-> FALSE]

\* the key holds an unexpired entry at time t
LiveEntry(key, t) ==
    cache[redis_key(key)].code # NoCode /\ t < cache[redis_key(key)].until

\* a set_ex that leaves an unexpired entry alone (SET .. NX)
redis_set_ex_nx(key, value, ttl, t) ==
    IF LiveEntry(key, t) THEN cache
    ELSE [cache EXCEPT ![redis_key(key)] = [code |-> value, until |-> t + ttl]]

\* a set_ex that takes its ttl for minutes
redis_set_ex_minutes(key, value, ttl, t) ==
    [cache EXCEPT ![redis_key(key)] = [code |-> value, until |-> t + ttl * 60]]

\* Redis::set_ex at time t
redis_set_ex(key, value, ttl, t) ==
    [cache EXCEPT ![redis_key(key)] = [code |-> value, until |-> t + ttl]]

\* Redis::del
redis_del(key) == [cache EXCEPT ![redis_key(key)] = NoEntry]

NoTokens == [ok |-> FALSE]

\* a request task with no call; the fields of a call:
\*   pc, op     next statement, handler
\*   uid, status   claims.uid, claims.status of the request's access token
\*   code       body.code (verify) or the generated code (request)
\*   saw        history: what redis.get told the call: "present" /
\*              "absent" for a request, "match" / "mismatch" / "absent"
\*              for a verify
\*   live       history: the key held an unexpired entry when redis.get
\*              answered
\*   wrote, over   history: set_ex was run; it replaced a live entry
\*   raced      history: another call wrote the key after this call's get
\*   sent, deleted, updated   history: job published; entry deleted after
\*              a match; password written
\*   tokens     the token pair to return
\*   res        the response
IdleCall ==
    [pc |-> "idle", op |-> "none", uid |-> 0, status |-> "none",
     code |-> NoCode, saw |-> "none", live |-> FALSE, wrote |-> FALSE,
     over |-> FALSE,
     raced |-> FALSE, sent |-> FALSE, deleted |-> FALSE, updated |-> FALSE,
     tokens |-> NoTokens, res |-> "none"]

\* the handler key of call record c
KeyOf(c) == handler_key(c.uid, KeyConst(c.op))

\* what verify calls did with the code stored under a key:
\*   matched   how many found their submitted code equal to it (2: more)
\*   updated   how many wrote a password after that (2: more)
\*   won       how many returned success after that (2: more)
\*   wrong     one was answered WrongCode
\* and what became of its email:
\*   mailed    a request_code call has enqueued a job for the key since
\*             the code was stored
NoTries ==
    [matched |-> 0, updated |-> 0, won |-> 0, wrong |-> FALSE,
     mailed |-> FALSE]

\* n, counted up to 2
Bump(n) == IF n < 2 THEN n + 1 ELSE 2

\* `tries` after the call c did `what` ("matched", "updated", "won",
\* "wrong", "mailed")
Tried(c, what) ==
    LET k == redis_key(KeyOf(c))
    IN  [tries EXCEPT ![k] =
           CASE what = "matched" -> [@ EXCEPT !.matched = Bump(@)]
             [] what = "updated" -> [@ EXCEPT !.updated = Bump(@)]
             [] what = "won" -> [@ EXCEPT !.won = Bump(@)]
             [] what = "wrong" -> [@ EXCEPT !.wrong = TRUE]
             [] what = "mailed" -> [@ EXCEPT !.mailed = TRUE]]

\* the verification-code workflow at rest
CodeIdle ==
    /\ cache = [k \in CacheKeys |-> NoEntry]
    /\ password = [u \in Uids |-> "old"]
    /\ mail = <<>>
    /\ call = [h \in Handlers |-> IdleCall]
    /\ last = IdleCall
    /\ consumed = [k \in CacheKeys |-> NoCode]
    /\ tries = [k \in CacheKeys |-> NoTries]
    /\ calls = 0
    /\ overlap = [k \in CacheKeys |-> FALSE]

\* what a code handler leaves alone, once begun
CodeFrame ==
    UNCHANGED <<running, callVars, delivVars, shutVars, jwtVars, errVars,
                calls, overlap>>

\* call record c after redis.get answered r
Looked(c, saw) ==
    [c EXCEPT !.saw = saw, !.live = LiveEntry(KeyOf(c), now)]

\* call h goes on as c
Goto(h, c) ==
    /\ call' = [call EXCEPT ![h] = c]
    /\ last' = IdleCall

\* call h, being c, returns r
Done(h, c, r) ==
    /\ call' = [call EXCEPT ![h] = IdleCall]
    /\ last' = [c EXCEPT !.pc = "done", !.res = r]

\* a request reaches a code handler: the Claims extractor has accepted its
\* access token (status other than Suspend) and the body is parsed; the
\* handler runs up to its first redis command: state.get_redis().await?,
\* and in verify_active_account_code_handler the status check. (The two
\* reset handlers never read claims.status: one value stands for all.)
Begin(h) ==
    /\ call[h].pc = "idle"
    /\ \A g \in Handlers : g < h => call[g].pc # "idle"
    /\ calls < MaxCalls
    /\ calls' = calls + 1
    /\ \E op \in Ops, uid \in Uids, status \in {"Active", "Inactive"},
          code \in Codes, ok \in BOOLEAN :
         LET c == [IdleCall EXCEPT
                     !.pc = "get", !.op = op, !.uid = uid,
                     !.status = status,
                     !.code = IF op \in SendOps THEN NoCode ELSE code]
         IN  /\ op \in SendOps => code = SomeCode
             /\ overlap' =
                  IF op \in SendOps
                  THEN [overlap EXCEPT ![redis_key(KeyOf(c))] =
                          @ \/ \E g \in Handlers :
                                  /\ call[g].op \in SendOps
                                  /\ KeyOf(call[g]) = KeyOf(c)]
                  ELSE overlap
             /\ op \in {"send_reset", "change_password"}
                => status = "Active"
             /\ IF ~ok THEN Done(h, c, "RedisError")
                ELSE IF op = "verify_active" /\ status # "Inactive"
                     THEN Done(h, c, "UserAlreadyActivated")
                ELSE Goto(h, c)
    /\ UNCHANGED <<cache, consumed, tries, password, mail, count>>
    /\ UNCHANGED <<running, callVars, delivVars, shutVars, jwtVars,
                   errVars>>

\* an email that carries a code of its own instead of the one handed in
Email_own_code(uid, subject, body) ==
    [to |-> EmailOf(uid), subject |-> subject, body |-> <<body[1], SomeCode>>]

\* Email::new(&claims.email, subject, &body), serialized
Email(uid, subject, body) ==
    [to |-> EmailOf(uid), subject |-> subject, body |-> body]

\* what basic_send(MQ_SEND_EMAIL_QUEUE, &email_json) comes to when run to
\* its end: Ok with the job on the queue and the counter as before, or an
\* error with the counter left incremented
basic_send_outcomes ==
    IF running THEN {"Ok", "PoolError", "ExeError"} ELSE {"Closed"}

\* a publish whose failure is dropped: the call returns success
PublishEmail_best_effort(h, email) ==
    \E o \in basic_send_outcomes :
        /\ cache' = cache
        /\ IF o = "Ok"
           THEN /\ mail' = Append(mail, email)
                /\ count' = count
                /\ tries' = Tried(call[h], "mailed")
                /\ Done(h, [call[h] EXCEPT !.sent = TRUE], "Ok")
           ELSE /\ mail' = mail
                /\ count' = increase_count(count)
                /\ tries' = tries
                /\ Done(h, call[h], "Ok")

\* a publish whose failure takes the stored code back
PublishEmail_rolls_back(h, email) ==
    \E o \in basic_send_outcomes :
        IF o = "Ok"
        THEN /\ mail' = Append(mail, email)
             /\ count' = count
             /\ cache' = cache
             /\ tries' = Tried(call[h], "mailed")
             /\ Done(h, [call[h] EXCEPT !.sent = TRUE], "Ok")
        ELSE /\ mail' = mail
             /\ count' = increase_count(count)
             /\ cache' = redis_del(KeyOf(call[h]))
             /\ tries' = tries
             /\ Done(h, call[h], "MqError")

\* state.get_mq()?.basic_send(MQ_SEND_EMAIL_QUEUE, &email_json).await?:
\* the cache is not touched on either outcome
PublishEmail(h, email) ==
    \E o \in basic_send_outcomes :
        /\ cache' = cache
        /\ IF o = "Ok"
           THEN /\ mail' = Append(mail, email)
                /\ count' = count
                /\ tries' = Tried(call[h], "mailed")
                /\ Done(h, [call[h] EXCEPT !.sent = TRUE], "Ok")
           ELSE /\ mail' = mail
                /\ count' = increase_count(count)
                /\ tries' = tries
                /\ Done(h, call[h], "MqError")

\* serde_json::to_string(&email).map_err(..)? failing: the call returns
\* the error, nothing else runs
SerializeFailed(h) ==
    /\ Done(h, call[h], "JsonError")
    /\ UNCHANGED <<cache, tries, mail, count>>

\* redis.set_ex(&key, &code, ttl) of call h
StoreCode(h, ttl) ==
    \E ok \in BOOLEAN :
        IF ~ok
        THEN /\ Done(h, call[h], "RedisError")
             /\ UNCHANGED <<cache, consumed, tries>>
        ELSE /\ cache' = redis_set_ex(KeyOf(call[h]), call[h].code, ttl, now)
             /\ consumed' = [consumed EXCEPT ![redis_key(KeyOf(call[h]))] =
                                NoCode]
             /\ tries' = [tries EXCEPT ![redis_key(KeyOf(call[h]))] =
                             NoTries]
             /\ last' = IdleCall
             /\ call' =
                  [g \in Handlers |->
                     IF g = h
                     THEN [call[h] EXCEPT
                             !.pc = "send", !.wrote = TRUE,
                             !.over = LiveEntry(KeyOf(call[h]), now)]
                     ELSE IF /\ call[g].pc = "set_ex"
                             /\ KeyOf(call[g]) = KeyOf(call[h])
                          THEN [call[g] EXCEPT !.raced = TRUE]
                     ELSE call[g]]

\* send_active_account_email_handler, from its redis.get on
send_active_account_email_handler(h) ==
    /\ call[h].op = "send_active"
    /\ \/ /\ call[h].pc = "get"
          /\ \E ok \in BOOLEAN :
               LET r == redis_get(KeyOf(call[h]), now)
               IN  IF ~ok THEN Done(h, call[h], "RedisError")
                   ELSE IF r.some
                        THEN Done(h, Looked(call[h], "present"),
                                  "CodeIntervalRejection")
                   ELSE IF call[h].status # "Inactive"
                        THEN Done(h, Looked(call[h], "absent"),
                                  "UserAlreadyActivated")
                   ELSE \E code \in Codes :
                          Goto(h, [Looked(call[h], "absent") EXCEPT
                                     !.pc = "set_ex", !.code = code])
          /\ UNCHANGED <<cache, consumed, tries, mail, count>>
       \/ /\ call[h].pc = "set_ex"
          /\ StoreCode(h, ACTIVE_TTL)
          /\ UNCHANGED <<mail, count>>
       \/ /\ call[h].pc = "send"
          /\ \/ SerializeFailed(h)
             \/ PublishEmail(h, Email(call[h].uid, "Active your account",
                                      <<"Active Code: ", call[h].code>>))
          /\ consumed' = consumed
    /\ password' = password
    /\ CodeFrame

\* send_reset_password_email_handler, from its redis.get on
send_reset_password_email_handler(h) ==
    /\ call[h].op = "send_reset"
    /\ \/ /\ call[h].pc = "get"
          /\ \E ok \in BOOLEAN :
               LET r == redis_get(KeyOf(call[h]), now)
               IN  IF ~ok THEN Done(h, call[h], "RedisError")
                   ELSE IF r.some
                        THEN Done(h, Looked(call[h], "present"),
                                  "CodeIntervalRejection")
                   ELSE \E code \in Codes :
                          Goto(h, [Looked(call[h], "absent") EXCEPT
                                     !.pc = "set_ex", !.code = code])
          /\ UNCHANGED <<cache, consumed, tries, mail, count>>
       \/ /\ call[h].pc = "set_ex"
          /\ StoreCode(h, RESET_TTL)
          /\ UNCHANGED <<mail, count>>
       \/ /\ call[h].pc = "send"
          /\ \/ SerializeFailed(h)
             \/ PublishEmail(h, Email(call[h].uid, "Reset Password",
                                      <<"ResetPassword Code: ", call[h].code>>))
          /\ consumed' = consumed
    /\ password' = password
    /\ CodeFrame

\* redis.del(&key) of call h, whose code matched the stored one
DeleteMatched(h) ==
    /\ cache' = redis_del(KeyOf(call[h]))
    /\ consumed' = [consumed EXCEPT ![redis_key(KeyOf(call[h]))] =
                       call[h].code]

\* a comparison that takes every submitted code for the stored one
code_matches_any(stored, submitted) == TRUE

\* stored == body.code
code_matches(stored, submitted) == stored = submitted

\* the cache a delete on a wrong code would leave
wrong_code_deletes(key) == redis_del(key)

\* the cache after the stored code differed from body.code:
\* return Err(AuthError(AuthInnerError::WrongCode)), with no redis command
wrong_code(key) == cache

\* verify_active_account_code_handler, from its redis.get on
verify_active_account_code_handler(h) ==
    /\ call[h].op = "verify_active"
    /\ \/ /\ call[h].pc = "get"
          /\ \E ok \in BOOLEAN :
               LET r == redis_get(KeyOf(call[h]), now)
               IN  IF ~ok
                   THEN /\ Done(h, call[h], "RedisError")
                        /\ UNCHANGED <<cache, tries>>
                   ELSE IF ~r.some
                   THEN /\ Goto(h, [Looked(call[h], "absent") EXCEPT
                                      !.pc = "fetch"])
                        /\ UNCHANGED <<cache, tries>>
                   ELSE IF code_matches(r.value, call[h].code)
                   THEN /\ Goto(h, [Looked(call[h], "match") EXCEPT
                                      !.pc = "del1"])
                        /\ tries' = Tried(call[h], "matched")
                        /\ cache' = cache
                   ELSE /\ Done(h, Looked(call[h], "mismatch"),
                                "WrongCode")
                        /\ tries' = Tried(call[h], "wrong")
                        /\ cache' = wrong_code(KeyOf(call[h]))
          /\ consumed' = consumed
       \/ /\ call[h].pc = "del1"
          /\ \E ok \in BOOLEAN :
               IF ~ok
               THEN /\ Done(h, call[h], "RedisError")
                    /\ UNCHANGED <<cache, consumed, tries>>
               ELSE /\ DeleteMatched(h)
                    /\ tries' = tries
                    /\ Goto(h, [call[h] EXCEPT !.pc = "fetch",
                                  !.deleted = TRUE])
       \/ /\ call[h].pc = "fetch"
          /\ \E ok \in BOOLEAN :
               LET user == fetch_user_by_uid(call[h].uid)
               IN  IF ~ok THEN Done(h, call[h], "DbError")
                   ELSE IF ~user.some
                        THEN Done(h, call[h], "WrongCredentials")
                   ELSE Goto(h, [call[h] EXCEPT !.pc = "del2",
                                   !.tokens =
                                     generate_tokens_for_user(user.row, now)])
          /\ UNCHANGED <<cache, consumed, tries>>
       \/ /\ call[h].pc = "del2"
          /\ \E ok \in BOOLEAN :
               IF ~ok
               THEN /\ Done(h, [call[h] EXCEPT !.tokens = NoTokens],
                            "RedisError")
                    /\ UNCHANGED <<cache, consumed, tries>>
               ELSE /\ cache' = redis_del(KeyOf(call[h]))
                    /\ consumed' = consumed
                    /\ tries' = IF call[h].saw = "match"
                                THEN Tried(call[h], "won")
                                ELSE tries
                    /\ Done(h, call[h], "Ok")
    /\ UNCHANGED <<password, mail, count>>
    /\ CodeFrame

\* crypto::hash_password(body.password)
hash_password(pw) == <<"argon2", pw>>

\* an update that writes nothing
update_password_by_uid_noop(uid, hash) == password

\* Account::update_password_by_uid: UPDATE .. WHERE id = uid
update_password_by_uid(uid, hash) ==
    IF uid \in DOMAIN store
    THEN [password EXCEPT ![uid] = hash]
    ELSE password

\* change_password_handler, from its redis.get on
change_password_handler(h) ==
    /\ call[h].op = "change_password"
    /\ \/ /\ call[h].pc = "get"
          /\ \E ok \in BOOLEAN, hashed \in BOOLEAN :
               LET r == redis_get(KeyOf(call[h]), now)
               IN  IF ~ok
                   THEN /\ Done(h, call[h], "RedisError")
                        /\ UNCHANGED <<cache, tries>>
                   ELSE IF ~r.some
                   THEN /\ Done(h, Looked(call[h], "absent"), "Ok")
                        /\ UNCHANGED <<cache, tries>>
                   ELSE IF ~code_matches(r.value, call[h].code)
                   THEN /\ Done(h, Looked(call[h], "mismatch"),
                                "WrongCode")
                        /\ tries' = Tried(call[h], "wrong")
                        /\ cache' = wrong_code(KeyOf(call[h]))
                   ELSE IF ~hashed
                   THEN /\ Done(h, Looked(call[h], "match"),
                                "HashError")
                        /\ tries' = Tried(call[h], "matched")
                        /\ cache' = cache
                   ELSE /\ Goto(h, [Looked(call[h], "match") EXCEPT
                                      !.pc = "update"])
                        /\ tries' = Tried(call[h], "matched")
                        /\ cache' = cache
          /\ UNCHANGED <<consumed, password>>
       \/ /\ call[h].pc = "update"
          /\ \E ok \in BOOLEAN :
               IF ~ok
               THEN /\ Done(h, call[h], "DbError")
                    /\ UNCHANGED <<password, tries>>
               ELSE /\ password' =
                         update_password_by_uid(call[h].uid,
                                                hash_password("new"))
                    /\ tries' = Tried(call[h], "updated")
                    /\ Goto(h, [call[h] EXCEPT !.pc = "del",
                                  !.updated = TRUE])
          /\ UNCHANGED <<cache, consumed>>
       \/ /\ call[h].pc = "del"
          /\ \E ok \in BOOLEAN :
               IF ~ok
               THEN /\ Done(h, call[h], "RedisError")
                    /\ UNCHANGED <<cache, consumed, tries>>
               ELSE /\ DeleteMatched(h)
                    /\ tries' = Tried(call[h], "won")
                    /\ Done(h, [call[h] EXCEPT !.deleted = TRUE], "Ok")
          /\ password' = password
    /\ UNCHANGED <<mail, count>>
    /\ CodeFrame

\* d seconds pass, and redis drops the entries whose TTL has run out. Here
\* the clock is kept relative to the present: `now` stays the origin and
\* the expiry time of every entry moves back by d. (A token pair that a
\* call has generated and not yet returned keeps its stamps.)
CacheTick ==
    /\ \E d \in {RESET_TTL, ACTIVE_TTL - RESET_TTL} :
         cache' = [k \in CacheKeys |->
                     IF cache[k].until - d <= now THEN NoEntry
                     ELSE [cache[k] EXCEPT !.until = @ - d]]
    /\ cache' # cache
    /\ last' = IdleCall
    /\ UNCHANGED <<jwtVars, mqVars, errVars, password, mail, call, consumed,
                   tries, calls, overlap>>

(***************************************************************************)
(* Errors and their responses, src/library/error.rs.  An error is the path  *)
(* of enum variants that names it: <<"AuthError", "WrongCode">> is          *)
(* AppError::AuthError(AuthInnerError::WrongCode).                          *)
(***************************************************************************)
\* enum AuthInnerError
AuthInnerError ==
    {<<"UserAlreadyExists">>, <<"WrongCredentials">>,
     <<"MissingCredentials">>, <<"TokenCreation">>, <<"InvalidToken">>,
     <<"WrongCode">>, <<"AccountSuspended">>, <<"InvalidTokenType">>,
     <<"UserAlreadyActivated">>}

\* enum ApiInnerError
ApiInnerError ==
    {<<"ValidationError">>, <<"AxumFormRejection">>,
     <<"CodeIntervalRejection">>}

\* enum RedisorError
RedisorError == {<<"PoolError">>, <<"ExeError">>}

\* enum MqerError
MqerError == {<<"PoolError">>, <<"ExeError">>}

\* enum AppInnerError
AppInnerError ==
    {<<"DataBaseError">>, <<"JsonError">>, <<"EmailError">>, <<"Unknown">>,
     <<"Anyhow">>}
      \cup {<<"RedisError">> \o e : e \in RedisorError}
      \cup {<<"MQError">> \o e : e \in MqerError}

\* enum AppError
AppError ==
    {<<"Unknown">>, <<"Anyhow">>, <<"ErrSystem">>}
      \cup {<<"InnerError">> \o e : e \in AppInnerError}
      \cup {<<"AuthError">> \o e : e \in AuthInnerError}
      \cup {<<"ApiError">> \o e : e \in ApiInnerError}

\* axum::http::StatusCode, the constants the mapping uses
StatusCode ==
    [OK |-> 200, BAD_REQUEST |-> 400, UNAUTHORIZED |-> 401,
     FORBIDDEN |-> 403, CONFLICT |-> 409, UNPROCESSABLE_ENTITY |-> 422]

\* a mapping with the catch-all arm only
select_status_code_catch_all(app_error) ==
    <<StatusCode.BAD_REQUEST, 99999>>

\* AppError::select_status_code: the match, arm by arm
select_status_code(app_error) ==
    IF app_error[1] = "AuthError" THEN
        CASE app_error[2] = "WrongCredentials" ->
               <<StatusCode.UNAUTHORIZED, 10001>>
          [] app_error[2] = "TokenCreation" ->
               <<StatusCode.FORBIDDEN, 10002>>
          [] app_error[2] = "InvalidToken" ->
               <<StatusCode.UNAUTHORIZED, 10003>>
          [] app_error[2] = "UserAlreadyExists" ->
               <<StatusCode.CONFLICT, 10004>>
          [] app_error[2] = "MissingCredentials" ->
               <<StatusCode.UNAUTHORIZED, 10005>>
          [] app_error[2] = "WrongCode" ->
               <<StatusCode.UNAUTHORIZED, 10006>>
          [] app_error[2] = "AccountSuspended" ->
               <<StatusCode.UNAUTHORIZED, 10007>>
          [] app_error[2] = "InvalidTokenType" ->
               <<StatusCode.UNAUTHORIZED, 10008>>
          [] app_error[2] = "UserAlreadyActivated" ->
               <<StatusCode.CONFLICT, 10009>>
    ELSE IF app_error[1] = "ApiError" THEN
        CASE app_error[2] = "ValidationError" ->
               <<StatusCode.UNPROCESSABLE_ENTITY, 20001>>
          [] app_error[2] = "AxumFormRejection" ->
               <<StatusCode.UNPROCESSABLE_ENTITY, 20001>>
          [] app_error[2] = "CodeIntervalRejection" ->
               <<StatusCode.OK, 30001>>
    ELSE <<StatusCode.BAD_REQUEST, 99999>>

\* the #[error(..)] attributes: the text of an error, a payload left as the
\* placeholder {0} without its quotes; a transparent variant shows what it
\* wraps, and a wrapped error of another crate shows as the crate type's
\* name
Display(e) ==
    CASE e[1] = "InnerError" /\ e[2] \in {"RedisError", "MQError"} ->
           IF e[2] = "RedisError"
           THEN IF e[3] = "PoolError" THEN "Redis connection error: {0}"
                ELSE "Redis execution error: {0}"
           ELSE IF e[3] = "PoolError" THEN "Mq connection error: {0}"
                ELSE "Mq execution error: {0}"
      [] e[1] = "InnerError" /\ e[2] = "DataBaseError" ->
           "Database error: {0}"
      [] e[1] = "InnerError" /\ e[2] = "JsonError" -> "Json error: {0}"
      [] e[1] = "InnerError" /\ e[2] = "EmailError" -> "Email error: {0}"
      [] e[1] = "InnerError" /\ e[2] = "Unknown" -> "Internal server error"
      [] e[1] = "InnerError" /\ e[2] = "Anyhow" -> "anyhow::Error"
      [] e[1] = "AuthError" -> e[2]
      [] e[1] = "ApiError" /\ e[2] = "ValidationError" ->
           "validator::ValidationErrors"
      [] e[1] = "ApiError" /\ e[2] = "AxumFormRejection" ->
           "axum::extract::rejection::FormRejection"
      [] e[1] = "ApiError" /\ e[2] = "CodeIntervalRejection" ->
           "Verification Code Interval Not Satisfied"
      [] e[1] = "Unknown" -> "Unknown error {0}"
      [] e[1] = "Anyhow" -> "anyhow::Error"
      [] e[1] = "ErrSystem" -> "System error {0}"

\* no error has been answered yet
ErrIdle ==
    /\ responses = <<>>
    /\ raised = <<>>

\* impl IntoResponse for AppError: into_response
into_response ==
    /\ Len(responses) < MaxResponses
    /\ \E self \in AppError :
         LET selected == select_status_code(self)
             status == selected[1]
             code == selected[2]
             body == [code |-> code, msg |-> Display(self)]
         IN  /\ responses' = Append(responses,
                                    [status |-> status, body |-> body])
             /\ raised' = Append(raised, self)
    /\ UNCHANGED <<mqVars, jwtVars, codeVars>>

CodeNext ==
    \/ \E h \in Handlers :
         \/ Begin(h)
         \/ send_active_account_email_handler(h)
         \/ send_reset_password_email_handler(h)
         \/ verify_active_account_code_handler(h)
         \/ change_password_handler(h)
    \/ CacheTick

\* the account rows the handlers may meet
StoreStates ==
    UNION {[D -> {"Active", "Inactive"}] : D \in SUBSET Uids}

\* the queue client as constructed, the token service configured, no code
\* requested yet
CodeSpecInit ==
    /\ MqInit
    /\ config = [access_token |-> [secret |-> "s1", secret_expiration |-> 1],
                 refresh_token |-> [secret |-> "s2", secret_expiration |-> 1]]
    /\ now = 0
    /\ ticks = 0
    /\ store \in StoreStates
    /\ tok = Garbage
    /\ issuedAs = "FORGED"
    /\ issuedFor = NoSubject
    /\ res = NoResult
    /\ CodeIdle
    /\ ErrIdle

CodeSpec == CodeSpecInit /\ [][CodeNext]_vars

JwtNext ==
    \/ Tick
    \/ StoreStatusChange
    \/ StoreDelete
    \/ GenerateTokensForUser
    \/ PresentForged
    \/ ParseToken
    \/ FromRequestParts
    \/ Handle
    \/ RefreshToken

\* the queue client stays as constructed
JwtSpecInit == MqInit /\ JwtInit /\ CodeIdle /\ ErrIdle

JwtSpec == JwtSpecInit /\ [][JwtNext]_vars

Init == MqInit /\ JwtIdle /\ CodeIdle /\ ErrIdle

(***************************************************************************)
(* The process, src/app/mod.rs serve: AppState::init, AppState::serve      *)
(* (the email consumer's basic_receive, awaited; its error is logged),    *)
(* api::Server::serve (bind, then axum::serve with graceful shutdown on    *)
(* shutdown_signal; a bind or serve error panics), services.shutdown()     *)
(* (graceful_shutdown).  A request is a basic_send call of a handler.      *)
(***************************************************************************)
\* app::serve goes from one statement to another; nothing else moves
Phase(from, to) ==
    /\ phase = from
    /\ phase' = to
    /\ UNCHANGED <<running, count, callVars, delivVars, spc, elapsed, busy,
                   polls, warned, sret, shutdowns, appVars>>

\* AppState::init returned; AppState::serve(app_state.clone()) is called
AppStart == Phase("init", "subscribe")

\* message_queue::Server::serve: self.email_sender().await, that is
\* basic_receive, then the match that logs an Err
AppSubscribe ==
    \/ /\ phase = "subscribe"
       /\ pc[Subscriber] # "ret"
       /\ basic_receive(Subscriber)
    \/ /\ pc[Subscriber] = "ret"
       /\ Phase("subscribe", "bind")

\* api::Server::serve: TcpListener::bind, panicking on an error
AppBind ==
    \E ok \in BOOLEAN :
        Phase("bind", IF ok THEN "serving" ELSE "panicked")

\* axum::serve: a request's handler runs basic_send; no request is accepted
\* after the shutdown signal, those in flight are served to the end
AppRequest ==
    \E c \in Publishers :
        /\ phase \in {"serving", "signalled"}
        /\ pc[c] = "idle" => phase = "serving"
        /\ basic_send(c)

\* the broker pushes messages to the consumer while the process lives
AppDeliver ==
    /\ phase \notin {"exit", "panicked"}
    /\ \E d \in Deliveries : Deliver(d) \/ on_new_delivery(d)

\* a shutdown_signal that tears the services down itself
shutdown_signal_shuts_down ==
    /\ phase = "serving"
    /\ phase' = "signalled"
    /\ spc = "idle"
    /\ running' = FALSE
    /\ elapsed' = 0
    /\ spc' = "count_load"
    /\ shutdowns' = shutdowns + 1
    /\ UNCHANGED <<count, callVars, delivVars, busy, polls, warned, sret,
                   appVars>>

\* bootstrap::shutdown_signal: Ctrl+C or SIGTERM is received
shutdown_signal == Phase("serving", "signalled")

\* axum::serve(..).await fails: unwrap_or_else panics
AppServeError == Phase("serving", "panicked")

\* the server future completes: the signal was received and every request
\* in flight has been answered
AppServed ==
    /\ \A c \in Publishers : pc[c] \in {"idle", "ret"}
    /\ Phase("signalled", "stopped")

\* app_state.services.shutdown().await: Mqer::graceful_shutdown
AppShutdown ==
    /\ phase = "stopped"
    /\ graceful_shutdown

\* app::serve returns
AppExit ==
    /\ spc = "ret"
    /\ Phase("stopped", "exit")

AppNext ==
    \/ AppStart
    \/ AppSubscribe
    \/ AppBind
    \/ AppRequest
    \/ AppDeliver
    \/ shutdown_signal
    \/ AppServeError
    \/ AppServed
    \/ AppShutdown
    \/ AppExit

Next ==
    \/ \E c \in Publishers : basic_send(c)
    \/ basic_receive(Subscriber)
    \/ \E d \in Deliveries : Deliver(d) \/ on_new_delivery(d)
    \/ graceful_shutdown

Spec == Init /\ [][Next]_vars

\* the thread that called graceful_shutdown keeps running
FairSpec == Spec /\ WF_vars(ShutdownStep)

\* one run of the process
AppSpec == Init /\ [][AppNext]_vars

\* errors of every kind turned into responses
ErrSpec == Init /\ [][into_response]_vars

(***************************************************************************)
(* Queue client: drain protocol properties.                                *)
(***************************************************************************)
\* a basic_send / basic_receive call that passed the running check in
\* get_conn and has not returned yet
InFlightCall(c) == passed[c] /\ pc[c] # "ret"

\* an on_new_delivery future that read running = true and has not returned
Dispatching(d) == dsaw[d] = "running" /\ dpc[d] # "ret"

InFlightCalls == {c \in Callers : InFlightCall(c)}

DispatchingDeliveries == {d \in Deliveries : Dispatching(d)}

\* C1: a call begun after graceful_shutdown cleared the running flag returns
\* unavailable, never borrows a pool connection, and once it has returned it
\* has left the counter where it was before the call (its increments are all
\* matched by decrements).
C1_RefusedCallRestoresCount ==
    \A c \in Callers :
        (late[c] /\ pc[c] = "ret")
            => (ret[c] = "Closed" /\ ~leased[c] /\ held[c] = 0)

\* C2: a basic_send / basic_receive call that acquired a lease (get_conn
\* returned a connection) has decremented the counter exactly once when it
\* returns, whatever the outcome: none of its increments is left over.
C2_LeasedCallDecrementsOnce ==
    \A c \in Callers : (pc[c] = "ret" /\ leased[c]) => held[c] = 0

\* C3: graceful_shutdown has returned only if its last count.load read zero
\* or the time-out had elapsed since it cleared the running flag.
C3_StopsOnZeroOrTimeout ==
    spc = "ret" => (busy = "zero" \/ elapsed > TIMEOUT * TicksPerSec)

\* C3 witness: shutdown returned on the time-out with the counter nonzero
C3_Witness ==
    /\ spc = "ret"
    /\ busy = "nonzero"
    /\ count > 0
    /\ elapsed > TIMEOUT * TicksPerSec

\* C4: once graceful_shutdown has read the counter as zero (after clearing
\* the flag), no call is between its running check and its decrement, none
\* holds a pool connection, and no call begun afterwards passes the check or
\* obtains a connection.
C4_ZeroReadMeansDrained ==
    (spc = "ret" /\ busy = "zero") =>
        \A c \in Callers :
            /\ ~InFlightCall(c)
            /\ ~conn[c]
            /\ late[c] => (~passed[c] /\ ~leased[c])

\* C4 witness: shutdown read zero after a publish had completed, and a call
\* made afterwards was refused
C4_Witness ==
    /\ spc = "ret"
    /\ busy = "zero"
    /\ \E c \in Callers : pc[c] = "ret" /\ ret[c] = "Ok" /\ ~late[c]
    /\ \E c \in Callers : pc[c] = "ret" /\ ret[c] = "Closed" /\ late[c]

\* C5: once called, graceful_shutdown eventually returns, and what it
\* returns is always Ok, also when the counter never reaches zero.
C5_ShutdownTerminatesOk ==
    /\ (spc # "idle") ~> (spc = "ret")
    /\ [](spc = "ret" => sret = "Ok")

\* C5 witness: shutdown returned Ok after the time-out warning, the counter
\* still nonzero
C5_Witness ==
    /\ spc = "ret"
    /\ sret = "Ok"
    /\ warned
    /\ count > 0

\* C6: graceful_shutdown sleeps at most TIMEOUT (5) one-second polls, also
\* while a consumer callback stays in flight, and then returns Ok.
C6_AtMostTimeoutPolls ==
    /\ polls <= TIMEOUT
    /\ spc = "ret" => sret = "Ok"

\* C6 witness: a callback is still running, shutdown slept 5 polls, warned
\* and returned Ok
C6_Witness ==
    /\ \E d \in Deliveries : dpc[d] = "func"
    /\ spc = "ret"
    /\ sret = "Ok"
    /\ warned
    /\ polls = TIMEOUT
    /\ count > 0

\* C7: the callback runs and an ack is sent only for a delivery that read
\* running = true; a message that arrives after the flag was cleared, or
\* whose future reads running = false, is neither processed nor acked.
C7_NoDispatchWhenStopped ==
    \A d \in Deliveries :
        /\ (dcalled[d] \/ dacked[d] # "none") => dsaw[d] = "running"
        /\ (dlate[d] \/ dsaw[d] = "stopped") => (~dcalled[d] /\ dacked[d] = "none")

\* C7 witness: a message arrived while running, the flag was cleared before
\* its future read it, and the future returned without callback or ack
C7_Witness ==
    \E d \in Deliveries :
        /\ dpc[d] = "ret"
        /\ ~dlate[d]
        /\ dsaw[d] = "stopped"
        /\ ~dcalled[d]
        /\ dacked[d] = "none"

\* C8: the counter never undercounts: it is at least the number of calls in
\* flight plus the number of callbacks dispatching; a delivery has its
\* increment before the callback runs and gives it back only after the
\* callback returned and the ack was attempted.
C8_CountNeverUndercounts ==
    /\ count >= Cardinality(InFlightCalls) + Cardinality(DispatchingDeliveries)
    /\ count < USIZE_MAX
    /\ \A d \in Deliveries :
        /\ dpc[d] \in {"func", "ack", "decrease_count"} => dheld[d] = 1
        /\ (dsaw[d] = "running" /\ dheld[d] = 0) => (dcalled[d] /\ dacked[d] # "none")

\* C8 witness: a call in flight and a callback dispatching, the counter
\* exactly their number
C8_Witness ==
    /\ InFlightCalls # {}
    /\ DispatchingDeliveries # {}
    /\ count = Cardinality(InFlightCalls) + Cardinality(DispatchingDeliveries)

(***************************************************************************)
(* Token service: validation properties.                                   *)
(***************************************************************************)
\* the last step was a validation of tok with its Authorization header (or
\* argument) in place
Validated ==
    /\ res.op \in {"parse_token", "from_request_parts", "handle",
                   "refresh_token"}
    /\ res.header

\* tok was issued by this service as the other type than the one the
\* validation asked for
WrongType == issuedAs \in TokenType /\ res.token_type # issuedAs

DistinctSecrets == config.access_token.secret # config.refresh_token.secret

\* C9 (as claimed): a token issued as one type is rejected with
\* InvalidToken by every validation under the other type: parse_token,
\* the request extractor, the auth middleware and refresh.
C9_WrongTypeRejected ==
    (Validated /\ WrongType) => res.out = InvalidToken

\* C9 (amended): the same, whenever the configured access and refresh
\* secrets differ.
C9_WrongTypeRejectedDistinctSecrets ==
    (DistinctSecrets /\ Validated /\ WrongType) => res.out = InvalidToken

\* C9 witness: refresh was handed an unexpired access token of an Active
\* account, the secrets differ, and it answered InvalidToken
C9_Witness ==
    /\ DistinctSecrets
    /\ res.op = "refresh_token"
    /\ issuedAs = "ACCESS"
    /\ tok.claims.status = "Active"
    /\ tok.claims.exp >= now
    /\ res.out = InvalidToken

\* C10: for a token signed with the secret of the requested type and not
\* past its expires-at, validate returns the token's claims exactly when
\* (require_active and status = Active) or (not require_active and status
\* is not Suspended), and InvalidToken otherwise.
C10_StatusGate ==
    (/\ res.op \in {"parse_token", "from_request_parts", "handle"}
     /\ res.header
     /\ tok.form = "jwt"
     /\ tok.key = (IF res.token_type = "ACCESS"
                   THEN config.access_token.secret
                   ELSE config.refresh_token.secret)
     /\ tok.claims.exp >= now)
    => res.out = IF \/ res.flag /\ tok.claims.status = "Active"
                    \/ ~res.flag /\ tok.claims.status # "Suspend"
                 THEN [ok |-> TRUE, claims |-> tok.claims]
                 ELSE InvalidToken

\* C10 witness: the token of an Inactive account, rightly signed and
\* unexpired, was accepted in the default mode
C10_Witness ==
    /\ res.op = "parse_token"
    /\ res.token_type = issuedAs
    /\ ~res.flag
    /\ tok.claims.status = "Inactive"
    /\ tok.claims.exp >= now
    /\ res.out = [ok |-> TRUE, claims |-> tok.claims]

\* the last step was validate(tok, ..): parse_token, the request extractor
\* or the auth middleware, with the header in place
ValidateCall ==
    /\ res.op \in {"parse_token", "from_request_parts", "handle"}
    /\ res.header

\* tok was issued by this service, for an account whose row now says
\* Suspend
SubjectSuspendedNow ==
    /\ issuedAs \in TokenType
    /\ issuedFor.uid \in DOMAIN store
    /\ store[issuedFor.uid] = "Suspend"

\* C11: validate in the default mode (require_active = false) never
\* accepts a token of an account whose status in the store is Suspended at
\* the time of validation.
C11_SuspendedNeverAccepted ==
    (ValidateCall /\ ~res.flag /\ SubjectSuspendedNow) => ~res.out.ok

\* C12: refresh with an unexpired refresh token of a subject whose status
\* was set to Suspended in the store after the token was issued fails with
\* InvalidToken and issues no token pair.
C12_RefreshOfSuspendedFails ==
    (/\ res.op = "refresh_token"
     /\ issuedAs = "REFRESH"
     /\ issuedFor.status # "Suspend"
     /\ SubjectSuspendedNow
     /\ tok.claims.exp >= now)
    => res.out = InvalidToken

\* C13: validate(access_token, ACCESS, require_active = false) made right
\* after issue(subject), no time having passed, succeeds and returns
\* claims whose id, email and status are the subject's; a valid subject is
\* an account that is not Suspended.
C13_IssueThenValidate ==
    (/\ ValidateCall
     /\ res.token_type = "ACCESS"
     /\ ~res.flag
     /\ issuedAs = "ACCESS"
     /\ issuedFor.status # "Suspend"
     /\ tok.claims.iat = now)
    => /\ res.out.ok
       /\ res.out.claims.uid = issuedFor.uid
       /\ res.out.claims.email = issuedFor.email
       /\ res.out.claims.status = issuedFor.status

\* C13 witness: the access token of an Active account was validated by the
\* request extractor at its issue time and accepted
C13_Witness ==
    /\ res.op = "from_request_parts"
    /\ res.header
    /\ issuedAs = "ACCESS"
    /\ issuedFor.status = "Active"
    /\ tok.claims.iat = now
    /\ res.out.ok
    /\ res.out.claims.status = "Active"

\* the last step was a validation of a well-formed token string
ValidatedToken == Validated /\ tok.form = "jwt"

\* C14 (as claimed): a validation of a token whose expires-at has passed
\* fails with InvalidToken, for every status and both modes.
C14_ExpiredRejected ==
    (ValidatedToken /\ now > tok.claims.exp) => res.out = InvalidToken

\* C14 (amended): a validation of a token whose expires-at has passed by
\* more than the 60 s leeway fails with InvalidToken, for every status and
\* both modes; a token is accepted only while the current time is at most
\* expires-at + 60 s; expires-at = issued-at + the expiration configured
\* for the token's own type.
C14_ExpiredPastLeewayRejected ==
    /\ (ValidatedToken /\ now > tok.claims.exp + LEEWAY)
       => res.out = InvalidToken
    /\ (ValidatedToken /\ res.out.ok) => now <= tok.claims.exp + LEEWAY
    /\ issuedAs \in TokenType
       => tok.claims.exp = tok.claims.iat + get_secret_expiration(issuedAs)

\* C14 witness: an Active account's access token, more than 60 s past its
\* expires-at, was rejected in the default mode
C14_Witness ==
    /\ ValidateCall
    /\ ~res.flag
    /\ res.token_type = issuedAs
    /\ issuedFor.status = "Active"
    /\ now > tok.claims.exp + LEEWAY
    /\ res.out = InvalidToken

\* the causes for which validate refuses tok
BadFormat == tok.form # "jwt"
BadSignature == tok.form = "jwt" /\ issuedAs = "FORGED"
WrongTypeSecret ==
    tok.form = "jwt" /\ issuedAs \in TokenType /\ tok.key # get_secret(res.token_type)
RightKey == tok.form = "jwt" /\ tok.key = get_secret(res.token_type)
Expired == RightKey /\ now > tok.claims.exp + LEEWAY
GateFailed ==
    /\ RightKey
    /\ now <= tok.claims.exp + LEEWAY
    /\ ~ \/ res.flag /\ tok.claims.status = "Active"
         \/ ~res.flag /\ tok.claims.status # "Suspend"
MissingHeader ==
    res.op \in {"from_request_parts", "handle"} /\ ~res.header

\* C15: validate answers with the one error value InvalidToken for a
\* malformed token, a bad signature, a wrong-type secret, an expired token
\* and a failed status gate, and so do the request extractor and the auth
\* middleware for a missing or malformed Authorization header: every
\* refusal is InvalidToken, whatever its cause.
C15_OneErrorValue ==
    /\ (ValidateCall /\ (BadFormat \/ BadSignature \/ WrongTypeSecret
                          \/ Expired \/ GateFailed))
       => res.out = InvalidToken
    /\ MissingHeader => res.out = InvalidToken
    /\ (res.op \in {"parse_token", "from_request_parts", "handle"}
        /\ ~res.out.ok)
       => res.out = InvalidToken

\* C15 witness: the auth middleware refused an expired token of this
\* service with InvalidToken
C15_Witness ==
    /\ res.op = "handle"
    /\ res.header
    /\ issuedAs = "ACCESS"
    /\ Expired
    /\ res.out = InvalidToken

\* tok is a refresh token of this service that refresh accepts
ValidRefreshToken ==
    /\ issuedAs = "REFRESH"
    /\ tok.claims.status # "Suspend"
    /\ tok.claims.exp >= now

ClaimsOfRow(token, u) ==
    /\ token.claims.uid = u
    /\ token.claims.email = EmailOf(u)
    /\ token.claims.status = store[u]

\* C17: a successful refresh issues both tokens from the account row read
\* at refresh time: id, email and status of the new access and refresh
\* tokens are the store's current values, not those of the presented
\* token.
C17_RefreshFromStore ==
    (res.op = "refresh_token" /\ res.out.ok)
    => /\ tok.claims.uid \in DOMAIN store
       /\ ClaimsOfRow(res.out.access_token, tok.claims.uid)
       /\ ClaimsOfRow(res.out.refresh_token, tok.claims.uid)
       /\ res.out.access_token.claims.iat = now
       /\ res.out.refresh_token.claims.iat = now

\* C17 witness: the refresh token said Inactive, the row says Active, and
\* the new tokens say Active
C17_Witness ==
    /\ res.op = "refresh_token"
    /\ res.out.ok
    /\ tok.claims.status = "Inactive"
    /\ store[tok.claims.uid] = "Active"
    /\ res.out.access_token.claims.status = "Active"

(***************************************************************************)
(* Verification codes: request_code is the two send_*_email handlers,      *)
(* verify_code is verify_active_account_code_handler and                   *)
(* change_password_handler.                                                *)
(***************************************************************************)
VerifyOps == {"verify_active", "change_password"}

\* errors of the collaborators (cache, store, queue client, hashing)
CollaboratorErrors ==
    {"RedisError", "DbError", "MqError", "HashError", "JsonError"}

\* a call returned in the last step
Returned(ops) == last.pc = "done" /\ last.op \in ops

\* a request_code call whose existence check was answered while the key
\* held an unexpired code was rejected, stored nothing and enqueued nothing
RejectedWhenLive ==
    (Returned(SendOps) /\ last.live)
    => /\ last.res = "CodeIntervalRejection"
       /\ ~last.wrote
       /\ ~last.sent

\* C18 (as claimed): under any interleaving of request_code calls, no call
\* stores a new code while an unexpired code for the same subject and
\* purpose is in the cache.
C18_NeverStoresOverLiveCode ==
    \A h \in Handlers : ~call[h].over

\* C18 (amended): a request_code call stores a new code over an unexpired
\* one only if that one was written by a concurrent request_code call
\* between this call's existence check and its write; a call whose check
\* finds an unexpired code is rejected and stores and enqueues nothing.
C18_StoresOverLiveCodeOnlyInRace ==
    /\ \A h \in Handlers : call[h].over => call[h].raced
    /\ RejectedWhenLive

\* C18 witness: one request_code call has just been rejected for the code
\* in the cache, while another one, which lost a race, has written over a
\* live code
C18_Witness ==
    /\ Returned(SendOps)
    /\ last.live
    /\ last.res = "CodeIntervalRejection"
    /\ \E h \in Handlers : call[h].over /\ call[h].raced

\* no other call is running when the last one returns
Alone == \A h \in Handlers : call[h].pc = "idle"

\* C19: a request_code call made after an earlier one for the same subject
\* and purpose, while that one's code is still in the cache unexpired,
\* returns CodeIntervalRejection, stores no code and enqueues no email; the
\* code and the jobs are as the first call left them.
C19_SecondRequestRejected ==
    (Returned(SendOps) /\ last.live)
    => /\ last.res = "CodeIntervalRejection"
       /\ ~last.wrote /\ ~last.over /\ ~last.sent
       /\ LiveEntry(KeyOf(last), now)

\* C19 witness: the first call stored its code and enqueued its email, no
\* call overlapped the second, and the second was rejected
C19_Witness ==
    /\ Returned(SendOps)
    /\ Alone
    /\ calls = 2
    /\ Len(mail) = 1
    /\ last.live
    /\ last.res = "CodeIntervalRejection"
    /\ LiveEntry(KeyOf(last), now)

\* C20: verify_code with the correct code deletes the stored code, and a
\* later verify_code with the same code for the same subject and purpose,
\* finding no code, fails with WrongCode (or with a collaborator's error)
\* instead of succeeding again.
C20_RoundTripOnce ==
    /\ (Returned(VerifyOps) /\ last.saw = "match" /\ last.res = "Ok")
       => last.deleted
    /\ (/\ Returned(VerifyOps)
        /\ last.saw = "absent"
        /\ consumed[redis_key(KeyOf(last))] = last.code)
       => last.res \in {"WrongCode", "WrongCredentials"}
                       \cup CollaboratorErrors

\* a verify call whose code matched succeeds, unless a collaborator fails
\* or the account row is gone
MatchSucceeds ==
    (Returned(VerifyOps) /\ last.saw = "match")
    => \/ /\ last.res = "Ok"
          /\ last.op = "verify_active" => last.tokens.ok
          /\ last.op = "change_password" => last.updated
       \/ last.res \in CollaboratorErrors
       \/ /\ last.res = "WrongCredentials"
          /\ last.op = "verify_active"
          /\ last.uid \notin DOMAIN store

\* the step in which a verify call finds a stored code that differs from
\* the submitted one returns WrongCode and leaves the cache (every code and
\* its expiry) and the passwords as they were, with no token pair
WrongCodeKeepsAll ==
    (last'.pc = "done" /\ last'.op \in VerifyOps /\ last'.saw = "mismatch")
    => /\ last'.res = "WrongCode"
       /\ cache' = cache
       /\ password' = password
       /\ last'.tokens = NoTokens
       /\ ~last'.updated /\ ~last'.deleted
       /\ cache[redis_key(KeyOf(last'))].code \notin {NoCode, last'.code}

\* C21: verify_code with a stored code that differs from the submitted
\* code fails with WrongCode and changes nothing (the stored code and its
\* remaining TTL are kept, no password is updated, no tokens are issued),
\* and a verify_code whose code then matches still succeeds.
C21_WrongCodeChangesNothing ==
    /\ [][WrongCodeKeepsAll]_vars
    /\ [](MatchSucceeds)

\* C21 witness: a verify call has succeeded on the code against which an
\* earlier call was answered WrongCode
C21_Witness ==
    /\ Returned(VerifyOps)
    /\ last.saw = "match"
    /\ last.res = "Ok"
    /\ tries[redis_key(KeyOf(last))].wrong
    /\ tries[redis_key(KeyOf(last))].matched = 1

\* C22: codes are single-use under every interleaving: the code stored
\* under a key is matched and consumed by at most one verify_code call:
\* no two calls, sequential or concurrent, both succeed by matching it, and
\* in the reset flow it authorizes at most one password update.
C22_SingleUse ==
    \A k \in CacheKeys :
        /\ tries[k].won <= 1
        /\ tries[k].updated <= 1

\* a verify call that found no code under its key has returned
AbsentReturned(op) ==
    Returned({op}) /\ last.saw = "absent"

\* an activation verify that found no code re-fetched the account and
\* returned a fresh token pair made from its row, unless a collaborator
\* failed or the row is gone
AbsentActivationIssues ==
    AbsentReturned("verify_active")
    => \/ /\ last.res = "Ok"
          /\ last.tokens.ok
          /\ last.uid \in DOMAIN store
          /\ ClaimsOfRow(last.tokens.access_token, last.uid)
          /\ ClaimsOfRow(last.tokens.refresh_token, last.uid)
          /\ last.tokens.access_token.claims.iat = now
       \/ last.res \in {"RedisError", "DbError"}
       \/ /\ last.res = "WrongCredentials"
          /\ last.uid \notin DOMAIN store

\* C23 (as claimed): verify_code with no stored code does not fail: the
\* activation call returns a fresh token pair, and the reset call applies
\* the submitted new password to the account store and returns success.
C23_AbsentCodeApplies ==
    /\ AbsentActivationIssues
    /\ AbsentReturned("change_password")
       => (last.res = "Ok" /\ last.updated)

\* the step in which a reset verify finds no code returns success and
\* leaves every password and the cache as they were
AbsentResetKeepsPassword ==
    (last'.pc = "done" /\ last'.op = "change_password"
        /\ last'.saw = "absent")
    => /\ last'.res = "Ok"
       /\ ~last'.updated
       /\ password' = password
       /\ cache' = cache

\* C23 (amended): with no stored code the activation call re-fetches the
\* account and returns a fresh token pair, and the reset call returns
\* success without applying the submitted password.
C23_AbsentCodeProceeds ==
    /\ [](AbsentActivationIssues)
    /\ [][AbsentResetKeepsPassword]_vars

\* C23 witness: no code was ever stored, and a reset verify has returned
\* success with the password as it was
C23_Witness ==
    /\ AbsentReturned("change_password")
    /\ last.res = "Ok"
    /\ password[last.uid] = "old"
    /\ \A k \in CacheKeys : cache[k] = NoEntry /\ tries[k] = NoTries

\* request_code and verify_code for the activation purpose
ActivationOps == {"send_active", "verify_active"}

\* C24: for the activation purpose, request_code and verify_code of a
\* subject whose status is not Inactive fail with UserAlreadyActivated
\* (a cache failure apart), whether or not a code is outstanding in the
\* cache, and store, delete and email no code and issue no tokens.
C24_AlreadyActivatedFirst ==
    (Returned(ActivationOps) /\ last.status # "Inactive")
    => /\ last.res \in {"UserAlreadyActivated", "RedisError"}
       /\ ~last.wrote /\ ~last.sent /\ ~last.deleted
       /\ last.tokens = NoTokens

\* the TTL of the purpose of cache key k
TTLOf(k) ==
    IF k[Len(k)] = REDIS_ACTIVE_ACCOUNT_KEY THEN ACTIVE_TTL ELSE RESET_TTL

\* a step leaves the entry under k as it is
Kept(k) == cache'[k] = cache[k]

\* a step stores a code of CODE_LEN characters under the empty key k, to
\* expire after the TTL of the purpose
IssuedFresh(k) ==
    /\ cache[k] = NoEntry
    /\ Len(cache'[k].code) = CODE_LEN
    /\ cache'[k].until = now + TTLOf(k)

\* time passes and no handler acts: the code under k is the same with less
\* time to live, or gone
Aged(k) ==
    /\ call' = call
    /\ cache[k] # NoEntry
    /\ \/ cache'[k] = NoEntry
       \/ /\ cache'[k].code = cache[k].code
          /\ now < cache'[k].until
          /\ cache'[k].until < cache[k].until

\* a verify call deletes the entry under k
Consumed(k) ==
    /\ cache'[k] = NoEntry
    /\ \E h \in Handlers :
         /\ call[h].op \in VerifyOps
         /\ call[h].pc \in {"del1", "del2", "del"}
         /\ redis_key(KeyOf(call[h])) = k

\* a request_code call that lost the race of its existence check stores
\* its code over the winner's, with a fresh TTL
Replaced(k) ==
    /\ cache[k] # NoEntry
    /\ \E h \in Handlers :
         /\ call[h].pc = "set_ex"
         /\ call[h].raced
         /\ redis_key(KeyOf(call[h])) = k
    /\ Len(cache'[k].code) = CODE_LEN
    /\ cache'[k].until = now + TTLOf(k)

\* a request_code call rejected for the interval, or a verify call answered
\* WrongCode, leaves every entry and its expiry as they were
RejectionKeepsTTL ==
    (last'.pc = "done"
        /\ last'.res \in {"CodeIntervalRejection", "WrongCode"})
    => cache' = cache

\* every entry in the cache is a code of CODE_LEN characters with at most
\* the TTL of its purpose left; a request_code call that finds the key
\* absent is not rejected for the interval
WithinTTL ==
    /\ \A k \in CacheKeys :
         cache[k] # NoEntry
         => /\ Len(cache[k].code) = CODE_LEN
            /\ now < cache[k].until
            /\ cache[k].until <= now + TTLOf(k)
    /\ (Returned(SendOps) /\ last.saw = "absent")
       => last.res # "CodeIntervalRejection"

\* C25 (as claimed): a stored code expires only through the cache TTL fixed
\* at issuance, 300 s for activation and 60 s for reset: until then the
\* 6-character code stays readable under its key unless a verify call
\* consumes it, a rejected request_code or a WrongCode attempt does not
\* change the TTL, and once the key is absent request_code is accepted.
C25_ExpiresOnlyByTTL ==
    /\ [][\A k \in CacheKeys :
            Kept(k) \/ IssuedFresh(k) \/ Aged(k) \/ Consumed(k)]_vars
    /\ [][RejectionKeepsTTL]_vars
    /\ [](WithinTTL)

\* C25 (amended): as claimed, except that a request_code call that lost
\* the race of its existence check replaces the stored code and starts its
\* TTL anew.
C25_ExpiresByTTLOrRace ==
    /\ [][\A k \in CacheKeys :
            Kept(k) \/ IssuedFresh(k) \/ Aged(k) \/ Consumed(k)
                \/ Replaced(k)]_vars
    /\ [][RejectionKeepsTTL]_vars
    /\ [](WithinTTL)

\* C25 witness: only two calls were made, both request_code for the same
\* subject and purpose; the first stored and mailed its code, the code
\* expired, and the second, overlapping no store, was accepted and its
\* different code is now under the key with the full TTL
C25_Witness ==
    /\ Returned(SendOps)
    /\ last.res = "Ok"
    /\ ~last.over /\ ~last.raced
    /\ calls = 2
    /\ Len(mail) = 2
    /\ mail[1].to = mail[2].to
    /\ mail[1].subject = mail[2].subject
    /\ mail[1].body # mail[2].body
    /\ cache[redis_key(KeyOf(last))] =
          [code |-> last.code,
           until |-> now + TTLOf(redis_key(KeyOf(last)))]

(***************************************************************************)
(* The queue client's lifecycle.                                           *)
(***************************************************************************)
\* Running: the flag is set; Draining: graceful_shutdown has cleared it and
\* is polling; Stopped: graceful_shutdown has returned
Lifecycle ==
    IF running THEN "Running"
    ELSE IF spc = "ret" THEN "Stopped"
    ELSE "Draining"

\* the lifecycle moves only from Running to Draining to Stopped, and the
\* flag, once cleared, stays cleared
OneWay ==
    /\ ~running => ~running'
    /\ Lifecycle' # Lifecycle
       => <<Lifecycle, Lifecycle'>> \in {<<"Running", "Draining">>,
                                        <<"Draining", "Stopped">>}

\* a call that reads the flag while it is cleared returns unavailable in
\* that step, with no pool connection
CheckedAfterClearRefused ==
    \A c \in Callers :
        (pc[c] = "running_load" /\ ~running /\ pc'[c] # pc[c])
        => /\ pc'[c] = "ret"
           /\ ret'[c] = "Closed"
           /\ ~passed'[c] /\ ~leased'[c] /\ ~conn'[c]

\* C26: the queue client starts with running = true and counter = 0; its
\* lifecycle is one-way Running -> Draining -> Stopped: once
\* graceful_shutdown has cleared the running flag nothing sets it again,
\* and no publish or subscribe call that checks the flag afterwards
\* obtains a lease.
C26_OneWayLifecycle ==
    /\ (running = TRUE /\ count = 0 /\ Lifecycle = "Running")
    /\ [][OneWay]_vars
    /\ [][CheckedAfterClearRefused]_vars
    /\ [](\A c \in Callers : (leased[c] \/ conn[c]) => passed[c])

\* C26 witness: the client is Stopped, and a call that found the flag
\* cleared was refused without a lease
C26_Witness ==
    /\ Lifecycle = "Stopped"
    /\ \E c \in Callers :
         /\ pc[c] = "ret"
         /\ ret[c] = "Closed"
         /\ held[c] > 0
         /\ ~passed[c] /\ ~leased[c]

\* C27: publish (basic_send) returns Ok only after the broker confirmed
\* the published payload; a call in which lease acquisition, declaration,
\* publish or confirmation failed returns an error, never Ok for a payload
\* the broker did not accept.
C27_OkOnlyAfterBrokerConfirm ==
    \A c \in Publishers :
        (pc[c] = "ret" /\ ret[c] = "Ok") => confirmation[c] = "Ack"

\* an activation request_code call has returned after storing its code
\* and building its job, without the job reaching the queue
EnqueueFailed ==
    /\ Returned({"send_active"})
    /\ last.wrote
    /\ ~last.sent
    /\ last.res # "JsonError"

\* C28 (as claimed): when enqueueing the activation email fails, the
\* activation request_code drops the failure: the request returns success
\* and the code it stored is still in the cache.
C28_EnqueueFailureDropped ==
    EnqueueFailed => last.res = "Ok"

\* the step in which the enqueue of an activation request_code fails
\* returns the queue client's error, publishes nothing and leaves the
\* cache, with the code the call stored, as it was
EnqueueFailureStep ==
    (last'.pc = "done" /\ last'.op = "send_active"
        /\ last'.wrote /\ ~last'.sent /\ last'.res # "JsonError")
    => /\ last'.res = "MqError"
       /\ mail' = mail
       /\ cache' = cache

\* C28 (amended): when enqueueing the activation email fails, the
\* activation request_code returns the queue client's error instead of
\* success; the code it stored is left in the cache.
C28_EnqueueFailureReturned ==
    /\ [](EnqueueFailed => last.res = "MqError")
    /\ [][EnqueueFailureStep]_vars

\* C28 witness: the enqueue failed, the call returned the error, and the
\* code the call stored is still under its key, with no job on the queue
C28_Witness ==
    /\ EnqueueFailed
    /\ last.res = "MqError"
    /\ mail = <<>>
    /\ LiveEntry(KeyOf(last), now)
    /\ cache[redis_key(KeyOf(last))].code = last.code

(***************************************************************************)
(* The process run.                                                        *)
(***************************************************************************)
\* the HTTP server is accepting or still answering requests
Serving == phase \in {"serving", "signalled"}

\* graceful_shutdown is called at most once, and only after the shutdown
\* signal was received and the server future completed
ShutdownAfterServer ==
    /\ shutdowns <= 1
    /\ (shutdowns > 0 \/ spc # "idle" \/ running = FALSE)
       => phase \in {"stopped", "exit"}

StatusOf(i) == responses[i].status
CodeOf(i) == responses[i].body.code

\* C30: the error-to-response mapping is a fixed total function: every
\* error gets a response, the same error always the same one; the nine
\* AuthError kinds get pairwise distinct codes within 10001..10009,
\* CodeIntervalRejection gets status 200 with code 30001, the validation
\* and form rejections get 422 with code 20001, and every other error gets
\* 400 with code 99999.
C30_ErrorMappingFixed ==
    /\ Len(responses) = Len(raised)
    /\ Cardinality(AuthInnerError) = 9
    /\ \A i \in 1..Len(raised) :
         LET e == raised[i]
         IN  /\ e[1] = "AuthError" => CodeOf(i) \in 10001..10009
             /\ e = <<"ApiError", "CodeIntervalRejection">>
                  => StatusOf(i) = 200 /\ CodeOf(i) = 30001
             /\ e \in {<<"ApiError", "ValidationError">>,
                       <<"ApiError", "AxumFormRejection">>}
                  => StatusOf(i) = 422 /\ CodeOf(i) = 20001
             /\ e[1] \notin {"AuthError", "ApiError"}
                  => StatusOf(i) = 400 /\ CodeOf(i) = 99999
             /\ \A j \in 1..Len(raised) :
                  /\ raised[j] = e
                       => StatusOf(j) = StatusOf(i) /\ CodeOf(j) = CodeOf(i)
                  /\ (e[1] = "AuthError" /\ raised[j][1] = "AuthError"
                        /\ raised[j] # e)
                       => CodeOf(j) # CodeOf(i)

\* C30 witness: two AuthError kinds have been answered, each with its own
\* code
C30_Witness ==
    /\ Len(responses) = 2
    /\ raised[1] = <<"AuthError", "WrongCode">>
    /\ raised[2] = <<"AuthError", "UserAlreadyActivated">>
    /\ CodeOf(1) = 10006
    /\ CodeOf(2) = 10009

(***************************************************************************)
(* Verification codes: the race of two request_code calls.                 *)
(***************************************************************************)
\* the code an email job carries: its body is the text before the code,
\* then the code
JobCode(job) == job.body[2]

\* the jobs enqueued for the subject and purpose of call record c: the
\* purposes differ in the subject line
JobsOf(c) ==
    {i \in 1..Len(mail) :
        /\ mail[i].to = EmailOf(c.uid)
        /\ mail[i].subject = IF c.op \in {"send_active", "verify_active"}
                             THEN "Active your account"
                             ELSE "Reset Password"}

\* set_ex of a request_code call puts the call's code under its key,
\* whatever was there
StoreReplaces ==
    \A h \in Handlers :
        (/\ call[h].op \in SendOps
         /\ call[h].pc = "set_ex"
         /\ call'[h].pc = "send")
        => cache'[redis_key(KeyOf(call[h]))].code = call[h].code

\* C31: two concurrent request_code calls for the same subject and purpose
\* can both pass the existing-code check before either writes; then neither
\* is rejected: a call that passed the check stores its code over whatever
\* is in the cache, and returns success with its own job enqueued unless a
\* collaborator fails, so that two jobs are enqueued and the cache keeps
\* the code written last.
C31_RacingRequestsBothSucceed ==
    /\ [][StoreReplaces]_vars
    /\ [](\A h \in Handlers :
            (call[h].op \in SendOps /\ call[h].pc \in {"set_ex", "send"})
            => call[h].saw = "absent")
    /\ []((Returned(SendOps) /\ last.over)
          => /\ last.raced
             /\ last.res \in {"Ok", "MqError", "JsonError"}
             /\ last.res = "Ok"
                => /\ mail # <<>>
                   /\ JobCode(mail[Len(mail)]) = last.code
                   /\ Len(mail) \in JobsOf(last))

\* C31 witness: both calls saw no code, both stored one and both returned
\* success; the two jobs of the subject and purpose carry different codes,
\* the cache holds the code of the call that wrote last, and the code
\* mailed first no longer matches
C31_Witness ==
    /\ Returned(SendOps)
    /\ last.res = "Ok"
    /\ last.saw = "absent"
    /\ last.over
    /\ last.raced
    /\ Len(mail) = 2
    /\ JobsOf(last) = {1, 2}
    /\ JobCode(mail[1]) # JobCode(mail[2])
    /\ redis_get(KeyOf(last), now) =
         [some |-> TRUE, value |-> JobCode(mail[2])]
    /\ JobCode(mail[2]) = last.code

(***************************************************************************)
(* Queue client: the drain.                                                *)
(***************************************************************************)
\* every operation begun before the flag was cleared (so in flight when it
\* was cleared, or ended before) has completed
InFlightCompleted ==
    /\ \A c \in Callers : (pc[c] # "idle" /\ ~late[c]) => pc[c] = "ret"
    /\ \A d \in Deliveries : (dpc[d] # "idle" /\ ~dlate[d]) => dpc[d] = "ret"

\* graceful_shutdown logs the time-out warning in this step
WarnStep == ~warned /\ warned'

\* C32: once every operation that was in flight when graceful_shutdown
\* cleared the flag has completed, graceful_shutdown reads a zero counter
\* and returns without the time-out warning, whatever publish attempts and
\* deliveries arrive during the drain: the warning is logged only while an
\* operation begun before the flag was cleared is still unfinished.
C32_DrainEndsWithoutWarning ==
    [][WarnStep => ~InFlightCompleted]_vars

(***************************************************************************)
(* Queue client: the counter does not wrap.                                *)
(***************************************************************************)
\* the operations whose increment is not given back yet
Holders ==
    Cardinality({c \in Callers : held[c] = 1})
      + Cardinality({d \in Deliveries : dheld[d] = 1})

\* a step that takes an operation's increment back finds that operation
\* holding exactly one, the counter above zero, and takes one from it
DecrementsOwnIncrement ==
    /\ \A c \in Callers :
         held'[c] < held[c]
         => held[c] = 1 /\ held'[c] = 0 /\ count > 0 /\ count' = count - 1
    /\ \A d \in Deliveries :
         dheld'[d] < dheld[d]
         => dheld[d] = 1 /\ dheld'[d] = 0 /\ count > 0 /\ count' = count - 1
    /\ count' < count
         => \/ \E c \in Callers : held'[c] < held[c]
            \/ \E d \in Deliveries : dheld'[d] < dheld[d]

\* C33: the in-flight counter never underflows: every decrement is made by
\* an operation that made its own increment earlier and has not decremented
\* since, so fetch_sub is never applied to 0 and the counter never wraps:
\* it is exactly the number of operations holding an increment.
C33_CounterNeverUnderflows ==
    /\ [](/\ \A c \in Callers : held[c] \in {0, 1}
          /\ \A d \in Deliveries : dheld[d] \in {0, 1}
          /\ count = Holders)
    /\ [][DecrementsOwnIncrement]_vars

\* C33 witness: a publish and a delivery have both given their increment
\* back, the second of them taking the counter from 1 to 0
C33_Witness ==
    /\ \E c \in Publishers : ret[c] = "Ok" /\ held[c] = 0
    /\ \E d \in Deliveries :
         dpc[d] = "ret" /\ dacked[d] # "none" /\ dheld[d] = 0
    /\ count = 0

(***************************************************************************)
(* Verification codes: who writes the password.                            *)
(***************************************************************************)
\* a change_password call goes on from its redis.get to the password
\* update only when the key holds an unexpired code equal to body.code
UpdateOnlyAfterMatch ==
    \A h \in Handlers :
        (/\ call[h].op = "change_password"
         /\ call[h].pc = "get"
         /\ call'[h].pc = "update")
        => redis_get(KeyOf(call[h]), now) =
             [some |-> TRUE, value |-> call[h].code]

\* the password of an account changes only in the update statement of a
\* change_password call for that account
PasswordWrittenByUpdate ==
    password' # password
    => \E h \in Handlers :
         /\ call[h].op = "change_password"
         /\ call[h].pc = "update"
         /\ call[h].saw = "match"
         /\ \A u \in Uids : u # call[h].uid => password'[u] = password[u]

\* C34: the reset flow changes the account's password only in a
\* verify_code(reset) call that found a stored code equal to the submitted
\* one: a call answered for a wrong code, or for no stored code, has not
\* written the password.
C34_PasswordOnlyAfterMatch ==
    /\ [][UpdateOnlyAfterMatch /\ PasswordWrittenByUpdate]_vars
    /\ [](\A h \in Handlers : call[h].pc = "update" => call[h].saw = "match")
    /\ []((Returned({"change_password"})
             /\ last.saw \in {"mismatch", "absent"})
          => /\ ~last.updated
             /\ last.res = IF last.saw = "mismatch" THEN "WrongCode"
                           ELSE "Ok")

\* C34 witness: a call that matched wrote the password, and a later call,
\* made with no code stored any more, returned without writing it again
C34_Witness ==
    /\ Returned({"change_password"})
    /\ last.saw = "absent"
    /\ ~last.updated
    /\ password[last.uid] # "old"
    /\ tries[redis_key(KeyOf(last))].updated = 1
    /\ consumed[redis_key(KeyOf(last))] # NoCode

(***************************************************************************)
(* Verification codes: verify_code(activate) and the account store.        *)
(***************************************************************************)
\* a step of a verify_active_account_code_handler call
VerifyActiveStep ==
    \E h \in Handlers :
        /\ call[h].op = "verify_active" \/ call'[h].op = "verify_active"
        /\ call'[h] # call[h]

\* the status both returned tokens carry
TokenStatus(tokens) ==
    {tokens.access_token.claims.status, tokens.refresh_token.claims.status}

\* C35: verify_code(activate) never writes to the account store: status
\* and password of every account are after each of its steps what they
\* were before (a successful verification does not make the account
\* Active), and the tokens it returns carry the status the store row holds
\* at the re-fetch.
C35_VerifyActiveKeepsStore ==
    /\ [][VerifyActiveStep => (store' = store /\ password' = password)]_vars
    /\ []((Returned({"verify_active"}) /\ last.res = "Ok")
          => /\ last.uid \in DOMAIN store
             /\ last.tokens.ok
             /\ TokenStatus(last.tokens) = {store[last.uid]})

\* C35 witness: the call matched the stored code and returned tokens, the
\* account is Inactive as before and so say the tokens
C35_Witness ==
    /\ Returned({"verify_active"})
    /\ last.res = "Ok"
    /\ last.saw = "match"
    /\ last.deleted
    /\ store[last.uid] = "Inactive"
    /\ TokenStatus(last.tokens) = {"Inactive"}

(***************************************************************************)
(* Queue client: acknowledging deliveries.                                 *)
(***************************************************************************)
\* the future of delivery d read running = true and is past delivery.ack
PastAck(d) ==
    dsaw[d] = "running" /\ dpc[d] \in {"decrease_count", "ret"}

\* C36: every message whose delivery found the running flag true is
\* acknowledged after its callback returned, whether the callback's work
\* succeeded or not (an unparsable payload and a mail-transport failure
\* are only logged), so a failed email job is not left for redelivery; and
\* the counter is decremented for the delivery even when the ack fails.
C36_AckedWhateverTheCallbackDid ==
    \A d \in Deliveries :
        /\ dacked[d] # "none" => (dcalled[d] /\ dwork[d] # "none")
        /\ PastAck(d) => (dcalled[d] /\ dacked[d] # "none")
        /\ (dsaw[d] = "running" /\ dpc[d] = "ret") => dheld[d] = 0

\* C36 witness: the mail transport failed in the callback, the ack was
\* attempted and failed, and the delivery gave its increment back
C36_Witness ==
    \E d \in Deliveries :
        /\ dsaw[d] = "running"
        /\ dpc[d] = "ret"
        /\ dwork[d] = "send_error"
        /\ dacked[d] = "err"
        /\ dheld[d] = 0
        /\ count = 0

(***************************************************************************)
(* Verification codes: a request_code call that fails after its store.     *)
(***************************************************************************)
\* a request_code call has returned an error after storing its code:
\* building or publishing its email job failed
FailedAfterStore ==
    /\ Returned(SendOps)
    /\ last.wrote
    /\ last.res \in {"JsonError", "MqError"}

\* a job is enqueued only by a call that has stored its code
StoredBeforePublished ==
    mail' # mail
    => \E h \in Handlers :
         /\ call[h].op \in SendOps
         /\ call[h].pc = "send"
         /\ call[h].wrote
         /\ mail' = Append(mail, mail'[Len(mail')])

\* the step in which a request_code call fails after its store leaves the
\* cache and the queue as they were
NoRollBack ==
    (last'.pc = "done" /\ last'.op \in SendOps /\ last'.wrote
        /\ last'.res # "Ok")
    => /\ last'.res \in {"JsonError", "MqError"}
       /\ ~last'.sent
       /\ cache' = cache
       /\ mail' = mail

\* C37: request_code stores the code before it publishes the email job
\* and does not roll back: when building or publishing the job fails the
\* caller gets the error and the code stays stored, so a further
\* request_code call for the subject and purpose is answered
\* CodeIntervalRejection as long as the entry is there, though no email was
\* enqueued; a call is rejected so only while an unexpired entry is there.
C37_FailedRequestKeepsCode ==
    /\ [][StoredBeforePublished /\ NoRollBack]_vars
    /\ [](FailedAfterStore => ~last.sent)
    /\ []((Returned(SendOps) /\ last.live /\ JobsOf(last) = {})
          => /\ last.res = "CodeIntervalRejection"
             /\ LiveEntry(KeyOf(last), now))
    /\ []((Returned(SendOps) /\ last.res = "CodeIntervalRejection")
          => last.live)

\* C37 witness: a request_code call stored a code and failed, so that no
\* job was ever enqueued; a later call, made with no other call running,
\* was rejected for the code the failed call left
C37_Witness ==
    /\ Returned(SendOps)
    /\ Alone
    /\ last.res = "CodeIntervalRejection"
    /\ last.live
    /\ mail = <<>>
    /\ count > 0
    /\ LiveEntry(KeyOf(last), now)

(***************************************************************************)
(* Verification codes: verify_code(reset) deletes after it has written.    *)
(***************************************************************************)
\* call h of change_password_handler runs its redis.del in this step
ResetDeletes(h) ==
    /\ call[h].op = "change_password"
    /\ call[h].pc = "del"
    /\ call'[h].pc = "idle"
    /\ last'.deleted

\* the password of account u is the one a reset wrote
Written(u) == hash_password("new") = password[u]

\* the step in which hashing or the store update of a change_password call
\* fails returns the error and leaves the cache as it was
ResetFailureKeepsCode ==
    (last'.pc = "done" /\ last'.op = "change_password"
        /\ last'.res \in {"HashError", "DbError"})
    => /\ cache' = cache
       /\ password' = password
       /\ ~last'.deleted

\* C38 (as claimed): in verify_code(reset) the stored code is deleted only
\* after the password update succeeded: a failure of hashing or of the
\* update propagates with the code still in the cache, and the code is
\* never deleted without the password having been written.
C38_DeletedOnlyAfterWrite ==
    /\ [][ResetFailureKeepsCode]_vars
    /\ [][\A h \in Handlers :
            ResetDeletes(h) => (call[h].updated /\ Written(call[h].uid))]_vars

\* C38 (amended): the stored code is deleted only after the update
\* statement returned without error; the password has then been written if
\* the account has a row (the update of an account without a row succeeds
\* and writes nothing). A failure of hashing or of the update propagates
\* with the code still in the cache.
C38_DeletedOnlyAfterUpdateOk ==
    /\ [][ResetFailureKeepsCode]_vars
    /\ [][\A h \in Handlers :
            ResetDeletes(h)
            => /\ call[h].updated
               /\ call[h].uid \in DOMAIN store => Written(call[h].uid)]_vars

\* C38 witness: the update failed, the call returned the error, and the
\* code it had matched is still there to try again
C38_Witness ==
    /\ Returned({"change_password"})
    /\ last.res = "DbError"
    /\ last.saw = "match"
    /\ ~last.deleted
    /\ redis_get(KeyOf(last), now) = [some |-> TRUE, value |-> last.code]

(***************************************************************************)
(* Verification codes: the code mailed is the code stored.                 *)
(***************************************************************************)
\* the subjects and purposes a code can be requested for, as call records
Requests == [uid : Uids, op : SendOps]

\* the code of the job enqueued last for the subject and purpose of c
LatestJobCode(c) ==
    LET J == JobsOf(c)
    IN  JobCode(mail[CHOOSE i \in J : \A j \in J : j <= i])

\* a job is enqueued by a request_code call that has stored its code, for
\* the call's subject and with the code the call generated and stored
EnqueueCarriesStored ==
    mail' # mail
    => \E h \in Handlers :
         LET job == mail'[Len(mail')]
         IN  /\ call[h].op \in SendOps
             /\ call[h].pc = "send"
             /\ call[h].wrote
             /\ mail' = Append(mail, job)
             /\ Len(mail') \in {i \in 1..Len(mail') :
                                  /\ mail'[i].to = EmailOf(call[h].uid)
                                  /\ mail'[i].subject =
                                       IF call[h].op = "send_active"
                                       THEN "Active your account"
                                       ELSE "Reset Password"}
             /\ JobCode(job) = call[h].code

\* a request_code call keeps the code it generated from its store to its
\* publish
CodeKept ==
    \A h \in Handlers :
        (call[h].op \in SendOps /\ call[h].pc \in {"set_ex", "send"})
        => (call'[h].pc = "idle" \/ call'[h].code = call[h].code)

\* C39 (as claimed): the code in the body of the enqueued email job is the
\* value the same request_code call stored in the cache; in a run without
\* concurrent request_code calls, the code carried by the latest enqueued
\* email of a subject and purpose equals the stored code for as long as the
\* entry exists.
C39_MailedCodeIsStoredCode ==
    /\ [][EnqueueCarriesStored /\ CodeKept /\ StoreReplaces]_vars
    /\ [](\A c \in Requests :
            (/\ ~overlap[redis_key(KeyOf(c))]
             /\ LiveEntry(KeyOf(c), now)
             /\ JobsOf(c) # {})
            => LatestJobCode(c) = cache[redis_key(KeyOf(c))].code)

\* C39 (amended): the code in the body of the enqueued email job is the
\* value the same request_code call stored in the cache; in a run without
\* concurrent request_code calls, once the call that stored the entry has
\* enqueued its job, the code carried by the latest enqueued email of the
\* subject and purpose equals the stored code for as long as the entry
\* exists.
C39_MailedCodeIsStoredCodeOnceSent ==
    /\ [][EnqueueCarriesStored /\ CodeKept /\ StoreReplaces]_vars
    /\ [](\A c \in Requests :
            (/\ ~overlap[redis_key(KeyOf(c))]
             /\ LiveEntry(KeyOf(c), now)
             /\ tries[redis_key(KeyOf(c))].mailed)
            => /\ JobsOf(c) # {}
               /\ LatestJobCode(c) = cache[redis_key(KeyOf(c))].code)

\* C39 witness: no two request_code calls ran at the same time; the second
\* code issued for the subject and purpose is stored and mailed, and it is
\* not the code mailed first
C39_Witness ==
    \E c \in Requests :
        /\ ~overlap[redis_key(KeyOf(c))]
        /\ LiveEntry(KeyOf(c), now)
        /\ tries[redis_key(KeyOf(c))].mailed
        /\ JobsOf(c) = {1, 2}
        /\ JobCode(mail[1]) # JobCode(mail[2])
        /\ cache[redis_key(KeyOf(c))].code = JobCode(mail[2])

\* the purpose a handler serves
Purposes == {"activate", "reset"}
PurposeOf(op) ==
    IF op \in {"send_active", "verify_active"} THEN "activate" ELSE "reset"

\* the redis key of the entry of a subject and purpose
EntryKey(uid, purpose) ==
    redis_key(handler_key(uid, IF purpose = "activate"
                               THEN REDIS_ACTIVE_ACCOUNT_KEY
                               ELSE REDIS_RESET_PASSWORD_KEY))

\* subject ids, of one and of two digits, and the calls made for them
KeyUids == 0..MaxKeyUid
KeyCalls == [uid : KeyUids, op : Ops]

\* two calls reach the same redis key exactly when they are for the same
\* subject and purpose
SameKeyIffSameEntry ==
    \A c1, c2 \in KeyCalls :
        (redis_key(KeyOf(c1)) = redis_key(KeyOf(c2)))
        <=> (c1.uid = c2.uid /\ PurposeOf(c1.op) = PurposeOf(c2.op))

\* the call of handler h that takes a step
Stepping(h) == IF call[h].pc = "idle" THEN call'[h] ELSE call[h]

\* a step of a handler leaves the entries of every other subject and
\* purpose as they were
TouchesOwnEntryOnly ==
    \A h \in Handlers :
        call'[h] # call[h]
        => \A u \in Uids, p \in Purposes :
              (u # Stepping(h).uid \/ p # PurposeOf(Stepping(h).op))
              => cache'[EntryKey(u, p)] = cache[EntryKey(u, p)]

\* what redis.get tells a call is the state of the entry of its own subject
\* and purpose
ReadsOwnEntry ==
    \A h \in Handlers :
        (call[h].pc = "get" /\ call'[h] # call[h])
        => LET c == IF call'[h].pc = "idle" THEN last' ELSE call'[h]
               e == cache[EntryKey(call[h].uid, PurposeOf(call[h].op))]
               live == e.code # NoCode /\ now < e.until
           IN  c.saw # "none"
               => /\ (c.saw = "absent") <=> ~live
                  /\ c.saw = "match" => c.code = e.code
                  /\ c.saw = "mismatch" => c.code # e.code

\* C40: all four code operations derive the cache key in the same way from
\* the subject id and the purpose, and the derivation is injective: issuing,
\* verifying or consuming a code for one subject and purpose never reads,
\* overwrites or deletes the entry of another subject or of the other
\* purpose of the same subject.
C40_KeysSeparateEntries ==
    /\ [][TouchesOwnEntryOnly /\ ReadsOwnEntry]_vars
    /\ []SameKeyIffSameEntry

\* a verify call deleted the entry of its purpose while the entry of the
\* other purpose of the same subject, holding another code, stayed
C40_Witness ==
    /\ last.pc = "done"
    /\ last.op \in VerifyOps
    /\ last.deleted
    /\ cache[EntryKey(last.uid, PurposeOf(last.op))] = NoEntry
    /\ \E p \in Purposes :
         /\ p # PurposeOf(last.op)
         /\ LiveEntry(handler_key(last.uid,
                                  IF p = "activate"
                                  THEN REDIS_ACTIVE_ACCOUNT_KEY
                                  ELSE REDIS_RESET_PASSWORD_KEY), now)
         /\ cache[EntryKey(last.uid, p)].code # last.code

====
